---- MODULE Spec2Model ----
(***************************************************************************)
(* Model of the transcript clean-up core of src/transcript-server.js:      *)
(* deduplicateTranscript, calculateSimilarity, parseTextIntoSegments, the  *)
(* subtitle renderers with wrapText and the time formatters, and the tool  *)
(* dispatcher; and of the page registry of src/puppeteer.js.               *)
(*                                                                         *)
(* A JavaScript string is modelled as a sequence of one-character strings, *)
(* so that trimming, splitting, regular-expression matching, lower-casing  *)
(* and length tests are computed character by character as the code does.  *)
(* A number similarity/1 is kept exact as a pair <<numerator, denominator>>.*)
(***************************************************************************)
EXTENDS Integers, Sequences, FiniteSets, TLC

(***************************************************************************)
(* The state of a transcription job and of the two servers                 *)
(***************************************************************************)
VARIABLES
    input,           \* the description of the raw text (the environment's choice)
    textResponse,    \* the raw text returned by the generative model
    pc,              \* where the job stands
    lines,           \* deduplicateTranscript: text.split('\n')
    lineIndex,       \* deduplicateTranscript: the next line of the loop
    cleanedLines,    \* deduplicateTranscript: cleanedLines
    seenContent,     \* deduplicateTranscript: seenContent
    recentSegments,  \* deduplicateTranscript: recentSegments
    cleanedResponse, \* the transcription result's text
    resultSegments,  \* the segments parseTextIntoSegments returned
    markerSegments,  \* parseTextIntoSegments: segments when the loop over the matches ended
    extracted,       \* extractTextFromGeminiResponse of the transcription result
    operands,        \* calculateSimilarity: << str1, str2 >>
    similarity,      \* calculateSimilarity: the value returned, << >> before the call
    wrapIn,          \* wrapText: << text, maxLength >>
    wrapOut,         \* wrapText: what the call returned
    seconds,         \* formatSRTTime, formatVTTTime: the argument
    timeCode,        \* what formatSRTTime and formatVTTTime returned
    data,            \* the transcription result handed to a renderer
    maxLineLength,   \* the renderers' maxLineLength
    rendered,        \* what each renderer returned or threw
    jobs,            \* the transcription jobs of the server: text, status, result
    running,         \* the job whose continuation runs, 0 when none does
    answers,         \* transcription server: what the tool dispatcher answered, per request
    browser,         \* Puppeteer server: this.browser, 0 for null
    pages,           \* Puppeteer server: this.pages, in insertion order
    currentPageId,   \* Puppeteer server: this.currentPageId
    launched,        \* the browsers puppeteer.launch has returned so far: 1..launched
    openBrowsers,    \* those of them that are not closed
    calls,           \* Puppeteer server: the tool calls suspended at an await
    received,        \* Puppeteer server: the tool calls received so far
    lastReply        \* Puppeteer server: the tool call answered last

vars == << input, textResponse, pc, lines, lineIndex, cleanedLines, seenContent,
           recentSegments, cleanedResponse, resultSegments, markerSegments, extracted,
           operands, similarity, wrapIn, wrapOut, seconds, timeCode, data, maxLineLength,
           rendered, jobs, running, answers, browser, pages, currentPageId, launched,
           openBrowsers, calls, received, lastReply >>

jobVars == << jobs, running >>

toolVars == << answers, browser, pages, currentPageId, launched, openBrowsers, calls,
               received, lastReply >>

renderVars == << wrapIn, wrapOut, seconds, timeCode, data, maxLineLength, rendered >>

dedupeVars == << lines, lineIndex, cleanedLines, seenContent, recentSegments >>

(***************************************************************************)
(* Characters                                                              *)
(***************************************************************************)
UpperSeq ==
    << "A", "B", "C", "D", "E", "F", "G", "H", "I", "J", "K", "L", "M",
       "N", "O", "P", "Q", "R", "S", "T", "U", "V", "W", "X", "Y", "Z" >>

LowerSeq ==
    << "a", "b", "c", "d", "e", "f", "g", "h", "i", "j", "k", "l", "m",
       "n", "o", "p", "q", "r", "s", "t", "u", "v", "w", "x", "y", "z" >>

DigitSeq == << "0", "1", "2", "3", "4", "5", "6", "7", "8", "9" >>

Range(f) == { f[i] : i \in DOMAIN f }

SetMin(S) == CHOOSE x \in S : \A y \in S : x <= y

SetMax(S) == CHOOSE x \in S : \A y \in S : x >= y

\* \d of the regular expressions
IsDigit(c) == c \in Range(DigitSeq)

\* \w of the regular expressions: [A-Za-z0-9_]
IsWordChar(c) == c \in Range(UpperSeq) \cup Range(LowerSeq) \cup Range(DigitSeq) \cup {"_"}

\* \s of the regular expressions, and the characters String.prototype.trim removes
IsSpace(c) == c \in {" ", "\t", "\n", "\r"}

\* String.prototype.toLowerCase on one character
ToLowerChar(c) ==
    IF \E i \in DOMAIN UpperSeq : UpperSeq[i] = c
    THEN LowerSeq[CHOOSE i \in DOMAIN UpperSeq : UpperSeq[i] = c]
    ELSE c

\* the value of a decimal digit character
DigitVal(c) == (CHOOSE i \in DOMAIN DigitSeq : DigitSeq[i] = c) - 1

(***************************************************************************)
(* String primitives                                                       *)
(***************************************************************************)
\* String.prototype.trim
Trim(s) ==
    LET keep == { i \in DOMAIN s : ~IsSpace(s[i]) }
    IN  IF keep = {} THEN << >> ELSE SubSeq(s, SetMin(keep), SetMax(keep))

\* String.prototype.substring(from) with a 0-based index: the rest of s after
\* its first n characters
DropFirst(s, n) == SubSeq(s, n + 1, Len(s))

\* String.prototype.split('\n')
RECURSIVE SplitLines(_)
SplitLines(s) ==
    LET nl == { i \in DOMAIN s : s[i] = "\n" }
    IN  IF nl = {} THEN << s >>
        ELSE << SubSeq(s, 1, SetMin(nl) - 1) >> \o SplitLines(DropFirst(s, SetMin(nl)))

\* Array.prototype.join('\n')
RECURSIVE JoinLines(_)
JoinLines(ls) ==
    IF ls = << >> THEN << >>
    ELSE IF Len(ls) = 1 THEN ls[1]
    ELSE ls[1] \o << "\n" >> \o JoinLines(Tail(ls))

\* String.prototype.split(/\s+/): the fields between maximal runs of white
\* space; a string that starts or ends with white space yields an empty
\* first or last field
RECURSIVE SplitWhitespace(_)
SplitWhitespace(s) ==
    LET sp == { i \in DOMAIN s : IsSpace(s[i]) }
    IN  IF sp = {} THEN << s >>
        ELSE LET p == SetMin(sp)
                 after == { i \in DOMAIN s : i > p /\ ~IsSpace(s[i]) }
                 q == IF after = {} THEN Len(s) + 1 ELSE SetMin(after)
             IN  << SubSeq(s, 1, p - 1) >> \o SplitWhitespace(SubSeq(s, q, Len(s)))

\* s.toLowerCase().replace(/[^\w\s]/g, '')
NormalizeText(s) ==
    LET low == [ i \in DOMAIN s |-> ToLowerChar(s[i]) ]
    IN  SelectSeq(low, LAMBDA c : IsWordChar(c) \/ IsSpace(c))

(***************************************************************************)
(* The timestamp pattern  \[(\d{1,2}):(\d{2})(?::(\d{2}))?\]               *)
(***************************************************************************)
\* the character at 1-based position i, or "" past either end
CharAt(s, i) == IF i \in DOMAIN s THEN s[i] ELSE ""

\* One attempt of the pattern at position p with n digits in the first group
\* and the optional third group present (withSecs) or absent.
TimestampShape(s, p, n, withSecs) ==
    /\ CharAt(s, p) = "["
    /\ \A k \in 1..n : IsDigit(CharAt(s, p + k))
    /\ CharAt(s, p + n + 1) = ":"
    /\ IsDigit(CharAt(s, p + n + 2))
    /\ IsDigit(CharAt(s, p + n + 3))
    /\ IF withSecs
       THEN /\ CharAt(s, p + n + 4) = ":"
            /\ IsDigit(CharAt(s, p + n + 5))
            /\ IsDigit(CharAt(s, p + n + 6))
            /\ CharAt(s, p + n + 7) = "]"
       ELSE CharAt(s, p + n + 4) = "]"

\* The capture groups of one successful attempt; group3 is << >> when the
\* optional group did not take part (undefined in JavaScript).
TimestampGroups(s, p, n, withSecs) ==
    [ index  |-> p,
      length |-> IF withSecs THEN n + 8 ELSE n + 5,
      group1 |-> SubSeq(s, p + 1, p + n),
      group2 |-> SubSeq(s, p + n + 2, p + n + 3),
      group3 |-> IF withSecs THEN SubSeq(s, p + n + 5, p + n + 6) ELSE << >> ]

\* The regular expression tried at position p, alternatives in the order the
\* backtracking matcher tries them (greedy \d{1,2}, greedy optional group).
\* The result is a sequence holding the match, or << >> when there is none.
TimestampMatchAt(s, p) ==
    IF TimestampShape(s, p, 2, TRUE) THEN << TimestampGroups(s, p, 2, TRUE) >>
    ELSE IF TimestampShape(s, p, 2, FALSE) THEN << TimestampGroups(s, p, 2, FALSE) >>
    ELSE IF TimestampShape(s, p, 1, TRUE) THEN << TimestampGroups(s, p, 1, TRUE) >>
    ELSE IF TimestampShape(s, p, 1, FALSE) THEN << TimestampGroups(s, p, 1, FALSE) >>
    ELSE << >>

\* parseInt of a string of decimal digits
RECURSIVE ParseInt(_)
ParseInt(d) ==
    IF d = << >> THEN 0
    ELSE 10 * ParseInt(SubSeq(d, 1, Len(d) - 1)) + DigitVal(d[Len(d)])

(***************************************************************************)
(* calculateSimilarity                                                     *)
(***************************************************************************)
\* A missing operand (null or undefined).  It is a one-element sequence
\* whose element is not a character, so it differs from every string.
Missing == << "null" >>

\* !str : true of the empty string and of a missing operand
IsFalsy(str) == str = << >> \/ str = Missing

\* Mutation: the intersection is counted over the word list of str1, so a
\* word repeated in str1 counts each time.
CalculateSimilarityRepeats(str1, str2) ==
    IF IsFalsy(str1) \/ IsFalsy(str2) THEN << 0, 1 >>
    ELSE IF str1 = str2 THEN << 1, 1 >>
    ELSE LET words1 == SplitWhitespace(str1)
             words2 == SplitWhitespace(str2)
             set2 == Range(words2)
             union == Range(words1) \cup set2
         IN  << Cardinality({ i \in DOMAIN words1 : words1[i] \in set2 }), Cardinality(union) >>

\* The result intersection.size / union.size, kept exact as a pair
\* << numerator, denominator >>; 0 is << 0, 1 >> and 1 is << 1, 1 >>.
CalculateSimilarity(str1, str2) ==
    IF IsFalsy(str1) \/ IsFalsy(str2) THEN << 0, 1 >>
    ELSE IF str1 = str2 THEN << 1, 1 >>
    ELSE LET words1 == SplitWhitespace(str1)
             words2 == SplitWhitespace(str2)
             set1 == Range(words1)
             set2 == Range(words2)
             intersection == { x \in set1 : x \in set2 }
             union == set1 \cup set2
         IN  << Cardinality(intersection), Cardinality(union) >>

\* Mutation: the threshold is 0.9.
ExceedsNineTenths(q) == 10 * q[1] > 9 * q[2]

\* q > 0.8 for a quotient q = << numerator, denominator >>
ExceedsThreshold(q) == 5 * q[1] > 4 * q[2]

(***************************************************************************)
(* deduplicateTranscript                                                   *)
(***************************************************************************)
SEGMENT_MEMORY == 5

MinNormalizedLength == 20

MinContentLength == 10

\* Mutation: the similarity window is a field of the server and is not
\* emptied when a call starts.
DedupeStartKeepsWindow ==
    [ cleanedLines |-> << >>, seenContent |-> {}, recentSegments |-> recentSegments ]

\* Mutation: the duplicate memory is kept in fields of the server and is not
\* emptied when a call starts.
DedupeStartKeepsMemory ==
    [ cleanedLines |-> << >>, seenContent |-> seenContent, recentSegments |-> recentSegments ]

\* The loop's local state before the first line.
DedupeStart ==
    [ cleanedLines |-> << >>, seenContent |-> {}, recentSegments |-> << >> ]

\* trimmedLine.match(/^\[...\]/): the match anchored at the start of the line
LeadingTimestamp(trimmedLine) == TimestampMatchAt(trimmedLine, 1)

\* content: the line without its leading timestamp, trimmed
LineContent(trimmedLine) ==
    LET timestampMatch == LeadingTimestamp(trimmedLine)
    IN  IF timestampMatch # << >>
        THEN Trim(DropFirst(trimmedLine, timestampMatch[1].length))
        ELSE trimmedLine

\* Mutation: only the exact check is made; recentSegments is not scanned.
IsDuplicateExactOnly(st, normalizedContent) ==
    /\ normalizedContent \in st.seenContent
    /\ Len(normalizedContent) > MinNormalizedLength

\* Mutation: the exact check is left out; only recentSegments is scanned.
IsDuplicateWindowOnly(st, normalizedContent) ==
    \E k \in DOMAIN st.recentSegments :
        ExceedsThreshold(CalculateSimilarity(normalizedContent, st.recentSegments[k]))

\* isDuplicate after the exact check and the scan of recentSegments
IsDuplicate(st, normalizedContent) ==
    \/ /\ normalizedContent \in st.seenContent
       /\ Len(normalizedContent) > MinNormalizedLength
    \/ \E k \in DOMAIN st.recentSegments :
          ExceedsThreshold(CalculateSimilarity(normalizedContent, st.recentSegments[k]))

\* Mutation: the window is cut when it reaches SEGMENT_MEMORY entries, so it
\* holds one entry less.
PushRecentShort(recent, normalizedContent) ==
    LET pushed == Append(recent, normalizedContent)
    IN  IF Len(pushed) >= SEGMENT_MEMORY THEN Tail(pushed) ELSE pushed

\* Mutation: beyond SEGMENT_MEMORY the entry just pushed is removed (pop)
\* instead of the oldest one (shift).
PushRecentEvictsNewest(recent, normalizedContent) ==
    LET pushed == Append(recent, normalizedContent)
    IN  IF Len(pushed) > SEGMENT_MEMORY THEN recent ELSE pushed

\* recentSegments.push(normalizedContent) and the shift beyond SEGMENT_MEMORY
PushRecent(recent, normalizedContent) ==
    LET pushed == Append(recent, normalizedContent)
    IN  IF Len(pushed) > SEGMENT_MEMORY THEN Tail(pushed) ELSE pushed

\* Mutation: a dropped line is remembered all the same: its normalized content
\* enters seenContent and recentSegments.
DedupeLineRemembersDropped(st, line) ==
    LET trimmedLine == Trim(line)
    IN  IF trimmedLine = << >>
        THEN [ st EXCEPT !.cleanedLines = Append(@, << >>) ]
        ELSE LET content == LineContent(trimmedLine)
                 normalizedContent == NormalizeText(content)
             IN  [ cleanedLines   |-> IF ~IsDuplicate(st, normalizedContent)
                                         /\ Len(content) > MinContentLength
                                      THEN Append(st.cleanedLines, line)
                                      ELSE st.cleanedLines,
                   seenContent    |-> st.seenContent \cup { normalizedContent },
                   recentSegments |-> PushRecent(st.recentSegments, normalizedContent) ]

\* One iteration of the loop over the lines: the local state after `line`.
DedupeLine(st, line) ==
    LET trimmedLine == Trim(line)
    IN  IF trimmedLine = << >>
        THEN [ st EXCEPT !.cleanedLines = Append(@, << >>) ]
        ELSE LET content == LineContent(trimmedLine)
                 normalizedContent == NormalizeText(content)
             IN  IF ~IsDuplicate(st, normalizedContent) /\ Len(content) > MinContentLength
                 THEN [ cleanedLines   |-> Append(st.cleanedLines, line),
                        seenContent    |-> st.seenContent \cup { normalizedContent },
                        recentSegments |-> PushRecent(st.recentSegments, normalizedContent) ]
                 ELSE st

\* The loop over lines[from..Len(lines)], started in local state st.
RECURSIVE DedupeLoop(_, _, _)
DedupeLoop(st, allLines, from) ==
    IF from > Len(allLines) THEN st
    ELSE DedupeLoop(DedupeLine(st, allLines[from]), allLines, from + 1)

\* deduplicateTranscript(text) as one call
DeduplicateTranscript(text) ==
    IF IsFalsy(text) THEN << >>
    ELSE JoinLines(DedupeLoop(DedupeStart, SplitLines(text), 1).cleanedLines)

(***************************************************************************)
(* parseTextIntoSegments                                                   *)
(***************************************************************************)
TrailingSegmentSeconds == 30

\* Mutation: the third group is tested after parseInt, so seconds "00" count
\* as an absent group.
MatchEntryParsedTest(m) ==
    [ index   |-> m.index,
      length  |-> m.length,
      hours   |-> IF ParseInt(m.group3) # 0 THEN ParseInt(m.group1) ELSE 0,
      minutes |-> IF ParseInt(m.group3) # 0 THEN ParseInt(m.group2) ELSE ParseInt(m.group1),
      seconds |-> IF ParseInt(m.group3) # 0 THEN ParseInt(m.group3) ELSE ParseInt(m.group2) ]

\* One entry of `matches`, built from a match of the global pattern.
MatchEntry(m) ==
    [ index   |-> m.index,
      length  |-> m.length,
      hours   |-> IF m.group3 # << >> THEN ParseInt(m.group1) ELSE 0,
      minutes |-> IF m.group3 # << >> THEN ParseInt(m.group2) ELSE ParseInt(m.group1),
      seconds |-> IF m.group3 # << >> THEN ParseInt(m.group3) ELSE ParseInt(m.group2) ]

\* The while loop over timestampRegex.exec(text): every match at or after
\* position `from`, leftmost first, the search resuming after each match.
RECURSIVE FindMatches(_, _)
FindMatches(text, from) ==
    LET hits == { p \in from..Len(text) : TimestampMatchAt(text, p) # << >> }
    IN  IF hits = {} THEN << >>
        ELSE LET m == TimestampMatchAt(text, SetMin(hits))[1]
             IN  << MatchEntry(m) >> \o FindMatches(text, m.index + m.length)

\* hours * 3600 + minutes * 60 + seconds of one entry of `matches`
MatchSeconds(entry) == entry.hours * 3600 + entry.minutes * 60 + entry.seconds

\* text.substring(startIndex, endIndex).trim() for matches[i]
SegmentText(text, matches, i) ==
    LET startIndex == matches[i].index + matches[i].length
        endIndex == IF i < Len(matches) THEN matches[i + 1].index ELSE Len(text) + 1
    IN  Trim(SubSeq(text, startIndex, endIndex - 1))

\* Mutation: every segment lasts the fixed trailing duration.
SegmentEndFixed(matches, i) == MatchSeconds(matches[i]) + TrailingSegmentSeconds

\* Mutation: every segment runs to the end of the text, 30 seconds after the
\* last marker.
SegmentEndOfText(matches, i) == MatchSeconds(matches[Len(matches)]) + TrailingSegmentSeconds

\* endTime for matches[i]
SegmentEnd(matches, i) ==
    IF i < Len(matches)
    THEN MatchSeconds(matches[i + 1])
    ELSE MatchSeconds(matches[i]) + TrailingSegmentSeconds

\* Mutation: seenTexts remembers the segment text as written instead of its
\* normalized form.
RECURSIVE MarkerLoopRawSeen(_, _, _, _, _)
MarkerLoopRawSeen(text, matches, i, segments, seenTexts) ==
    IF i > Len(matches) THEN segments
    ELSE LET segmentText == SegmentText(text, matches, i)
         IN  IF segmentText # << >> /\ segmentText \notin seenTexts
             THEN MarkerLoopRawSeen(text, matches, i + 1,
                                    Append(segments,
                                           [ start |-> MatchSeconds(matches[i]),
                                             end   |-> SegmentEnd(matches, i),
                                             text  |-> segmentText ]),
                                    seenTexts \cup { segmentText })
             ELSE MarkerLoopRawSeen(text, matches, i + 1, segments, seenTexts)

\* The for loop over matches[i..]: `segments` after it, given the segments
\* and the seenTexts collected so far.
RECURSIVE MarkerLoop(_, _, _, _, _)
MarkerLoop(text, matches, i, segments, seenTexts) ==
    IF i > Len(matches) THEN segments
    ELSE LET segmentText == SegmentText(text, matches, i)
             normalizedText == NormalizeText(segmentText)
         IN  IF segmentText # << >> /\ normalizedText \notin seenTexts
             THEN MarkerLoop(text, matches, i + 1,
                             Append(segments,
                                    [ start |-> MatchSeconds(matches[i]),
                                      end   |-> SegmentEnd(matches, i),
                                      text  |-> segmentText ]),
                             seenTexts \cup { normalizedText })
             ELSE MarkerLoop(text, matches, i + 1, segments, seenTexts)

\* `segments` when the for loop over the matches has ended
MarkerSegments(text) == MarkerLoop(text, FindMatches(text, 1), 1, << >>, {})

\* Mutation: text.split('\n\n'), two adjacent line breaks only.
RECURSIVE SplitParagraphsStrict(_)
SplitParagraphsStrict(text) ==
    LET starts == { p \in DOMAIN text : text[p] = "\n" /\ CharAt(text, p + 1) = "\n" }
    IN  IF starts = {} THEN << text >>
        ELSE << SubSeq(text, 1, SetMin(starts) - 1) >>
             \o SplitParagraphsStrict(DropFirst(text, SetMin(starts) + 1))

\* text.split(/\n\s*\n/): a separator starts at a line break and runs, through
\* white space only, to the last line break of that white space.
RECURSIVE SplitParagraphs(_)
SplitParagraphs(text) ==
    LET ends(p) == { q \in DOMAIN text :
                       /\ q > p
                       /\ text[q] = "\n"
                       /\ \A k \in p..q : IsSpace(text[k]) }
        starts == { p \in DOMAIN text : text[p] = "\n" /\ ends(p) # {} }
    IN  IF starts = {} THEN << text >>
        ELSE LET p == SetMin(starts)
                 q == SetMax(ends(p))
             IN  << SubSeq(text, 1, p - 1) >> \o SplitParagraphs(DropFirst(text, q))

\* The forEach over the non-empty paragraphs, from the one at 0-based `index`.
RECURSIVE ParagraphLoop(_, _, _, _)
ParagraphLoop(paragraphs, index, segments, seenParagraphs) ==
    IF index >= Len(paragraphs) THEN segments
    ELSE LET paragraph == paragraphs[index + 1]
             normalizedPara == NormalizeText(Trim(paragraph))
         IN  IF normalizedPara \notin seenParagraphs
             THEN ParagraphLoop(paragraphs, index + 1,
                                Append(segments,
                                       [ start |-> index * TrailingSegmentSeconds,
                                         end   |-> (index + 1) * TrailingSegmentSeconds,
                                         text  |-> Trim(paragraph) ]),
                                seenParagraphs \cup { normalizedPara })
             ELSE ParagraphLoop(paragraphs, index + 1, segments, seenParagraphs)

\* The segments made from paragraphs when the marker loop produced none.
ParagraphSegments(text) ==
    LET paragraphs == SelectSeq(SplitParagraphs(text), LAMBDA p : Len(Trim(p)) > 0)
    IN  ParagraphLoop(paragraphs, 0, << >>, {})

\* parseTextIntoSegments(text)
ParseTextIntoSegments(text) ==
    LET segments == MarkerSegments(text)
    IN  IF Len(segments) = 0 THEN ParagraphSegments(text) ELSE segments

\* A value handed to the renderers as `data`: null or undefined (kind
\* "null"), a string (kind "string", the string in text), or an object with
\* an optional text (Missing when absent) and an optional segments array.
NoData == [ kind |-> "null", text |-> Missing, hasSegments |-> FALSE, segments |-> << >> ]

StringData(text) ==
    [ kind |-> "string", text |-> text, hasSegments |-> FALSE, segments |-> << >> ]

\* { text, segments } as callGeminiForTranscription returns it
TranscriptionResult(text, segments) ==
    [ kind |-> "object", text |-> text, hasSegments |-> TRUE, segments |-> segments ]

\* { segments } without a text
SegmentsOnly(segments) ==
    [ kind |-> "object", text |-> Missing, hasSegments |-> TRUE, segments |-> segments ]

\* segments.map(...).filter(...).join('\n\n'): the non-blank texts of the
\* segments, an entry without text counting as ''
RECURSIVE JoinBlank(_)
JoinBlank(ts) ==
    IF ts = << >> THEN << >>
    ELSE IF Len(ts) = 1 THEN ts[1]
    ELSE ts[1] \o << "\n", "\n" >> \o JoinBlank(Tail(ts))

\* extractTextFromGeminiResponse(data)
ExtractTextFromGeminiResponse(dataArg) ==
    IF dataArg.kind = "string" THEN DeduplicateTranscript(dataArg.text)
    ELSE IF dataArg.kind = "object" /\ ~IsFalsy(dataArg.text)
    THEN DeduplicateTranscript(dataArg.text)
    ELSE IF dataArg.kind = "object" /\ dataArg.hasSegments
    THEN LET texts == [ i \in DOMAIN dataArg.segments |->
                          IF IsFalsy(dataArg.segments[i].text) THEN << >>
                          ELSE dataArg.segments[i].text ]
             kept == SelectSeq(texts, LAMBDA t : Len(Trim(t)) > 0)
         IN  DeduplicateTranscript(JoinBlank(kept))
    ELSE << >>

(***************************************************************************)
(* formatSRTTime, formatVTTTime                                            *)
(***************************************************************************)
\* Number.prototype.toString of a natural number
RECURSIVE NumberToString(_)
NumberToString(n) ==
    IF n < 10 THEN << DigitSeq[n + 1] >>
    ELSE NumberToString(n \div 10) \o << DigitSeq[(n % 10) + 1] >>

\* s.padStart(n, '0')
PadStart(s, n) ==
    IF Len(s) >= n THEN s ELSE [ i \in 1..(n - Len(s)) |-> "0" ] \o s

\* s.replace(from, to) with a one-character string pattern: the first
\* occurrence only
ReplaceFirst(s, from, to) ==
    LET at == { i \in DOMAIN s : s[i] = from }
    IN  IF at = {} THEN s ELSE [ s EXCEPT ![SetMin(at)] = to ]

\* Mutation: the hours are reduced modulo 24.
FormatSRTTimeDayWrap(secondsArg) ==
    LET hours == (secondsArg \div 3600) % 24
        minutes == (secondsArg % 3600) \div 60
        secs == secondsArg % 60
        ms == (secondsArg % 1) * 1000
    IN  PadStart(NumberToString(hours), 2) \o << ":" >> \o PadStart(NumberToString(minutes), 2) \o << ":" >>
        \o PadStart(NumberToString(secs), 2) \o << "," >> \o PadStart(NumberToString(ms), 3)

\* formatSRTTime(seconds), for a whole number of seconds
FormatSRTTime(secondsArg) ==
    LET hours == secondsArg \div 3600
        minutes == (secondsArg % 3600) \div 60
        secs == secondsArg % 60
        ms == (secondsArg % 1) * 1000
    IN  PadStart(NumberToString(hours), 2) \o << ":" >> \o PadStart(NumberToString(minutes), 2) \o << ":" >>
        \o PadStart(NumberToString(secs), 2) \o << "," >> \o PadStart(NumberToString(ms), 3)

\* formatVTTTime(seconds)
FormatVTTTime(secondsArg) == ReplaceFirst(FormatSRTTime(secondsArg), ",", ".")

(***************************************************************************)
(* wrapText                                                                *)
(***************************************************************************)
\* text.split(' '): the fields between single spaces, empty fields included
RECURSIVE SplitSpaces(_)
SplitSpaces(s) ==
    LET sp == { i \in DOMAIN s : s[i] = " " }
    IN  IF sp = {} THEN << s >>
        ELSE << SubSeq(s, 1, SetMin(sp) - 1) >> \o SplitSpaces(SubSeq(s, SetMin(sp) + 1, Len(s)))

\* Mutation: the space that joins the word to the line is not counted.
WrapFitsNoSpace(currentLine, word, maxLength) ==
    Len(currentLine) + Len(word) <= maxLength

\* Mutation: a line may not reach maxLength.
WrapFitsStrict(currentLine, word, maxLength) ==
    Len(currentLine) + Len(word) + 1 < maxLength

\* currentLine.length + word.length + 1 <= maxLength
WrapFits(currentLine, word, maxLength) ==
    Len(currentLine) + Len(word) + 1 <= maxLength

\* Mutation: the line being filled when the words run out is not pushed.
RECURSIVE WrapLoopNoFlush(_, _, _, _, _)
WrapLoopNoFlush(words, from, maxLength, wrapLines, currentLine) ==
    IF from > Len(words)
    THEN wrapLines
    ELSE LET word == words[from]
         IN  IF WrapFits(currentLine, word, maxLength)
             THEN WrapLoopNoFlush(words, from + 1, maxLength, wrapLines,
                                  currentLine \o (IF currentLine # << >> THEN << " " >> ELSE << >>)
                                      \o word)
             ELSE WrapLoopNoFlush(words, from + 1, maxLength,
                                  IF currentLine # << >> THEN Append(wrapLines, currentLine)
                                  ELSE wrapLines,
                                  word)

\* The loop over the words: the lines pushed and the current line after
\* words[from..].
RECURSIVE WrapLoop(_, _, _, _, _)
WrapLoop(words, from, maxLength, wrapLines, currentLine) ==
    IF from > Len(words)
    THEN IF currentLine # << >> THEN Append(wrapLines, currentLine) ELSE wrapLines
    ELSE LET word == words[from]
         IN  IF WrapFits(currentLine, word, maxLength)
             THEN WrapLoop(words, from + 1, maxLength, wrapLines,
                           currentLine \o (IF currentLine # << >> THEN << " " >> ELSE << >>) \o word)
             ELSE WrapLoop(words, from + 1, maxLength,
                           IF currentLine # << >> THEN Append(wrapLines, currentLine)
                           ELSE wrapLines,
                           word)

\* wrapText(text, maxLength)
WrapText(text, maxLength) ==
    IF Len(text) <= maxLength THEN text
    ELSE JoinLines(WrapLoop(SplitSpaces(text), 1, maxLength, << >>, << >>))

(***************************************************************************)
(* generateSRTFromGemini, generateVTTFromGemini                            *)
(***************************************************************************)
\* maxLineLength = 80
DefaultMaxLineLength == 80

\* the seconds a cue without a start or an end gets per index in the SRT file
SrtCueSeconds == 8

\* the end of a cue without an end in the VTT file
VttDefaultEnd == 5

\* x || d for a number x: d when x is 0
JsOr(x, d) == IF x = 0 THEN d ELSE x

\* what a call returned, or the error it threw
Returned(content) == [ outcome |-> "returned", content |-> content ]
Threw(error) == [ outcome |-> error, content |-> << >> ]
NotRendered == [ outcome |-> "not called", content |-> << >> ]

\* const segments = data.segments || this.parseTextIntoSegments(
\*     this.extractTextFromGeminiResponse(data))
\* data.segments throws when data is null or undefined
RenderSegments(dataArg) ==
    IF dataArg.kind = "object" /\ dataArg.hasSegments THEN dataArg.segments
    ELSE ParseTextIntoSegments(ExtractTextFromGeminiResponse(dataArg))

\* Mutation: the segments are rendered as given, repeats included.
UniqueSegmentsAll(segments, from, uniqueSegments, seenTexts) ==
    SelectSeq(segments, LAMBDA seg : Trim(seg.text) # << >>)

\* The loop that fills uniqueSegments: a segment is kept when its normalized
\* text was not seen and its trimmed text is not empty.
RECURSIVE UniqueSegments(_, _, _, _)
UniqueSegments(segments, from, uniqueSegments, seenTexts) ==
    IF from > Len(segments) THEN uniqueSegments
    ELSE LET segment == segments[from]
             normalizedText == NormalizeText(Trim(segment.text))
         IN  IF normalizedText \notin seenTexts /\ Trim(segment.text) # << >>
             THEN UniqueSegments(segments, from + 1, Append(uniqueSegments, segment),
                                 seenTexts \cup { normalizedText })
             ELSE UniqueSegments(segments, from + 1, uniqueSegments, seenTexts)

\* segment.text.trim() throws on a segment without text
SomeTextMissing(segments) == \E i \in DOMAIN segments : segments[i].text = Missing

Arrow == << " ", "-", "-", ">", " " >>

\* the three template lines appended to srtContent for one segment
SrtCue(segment, index, maxLength) ==
    NumberToString(index) \o << "\n" >>
    \o FormatSRTTime(JsOr(segment.start, (index - 1) * SrtCueSeconds)) \o Arrow
    \o FormatSRTTime(JsOr(segment.end, index * SrtCueSeconds)) \o << "\n" >>
    \o WrapText(Trim(segment.text), maxLength) \o << "\n", "\n" >>

\* uniqueSegments.forEach(...) of generateSRTFromGemini, index running from `index`
RECURSIVE SrtCues(_, _, _)
SrtCues(uniqueSegments, index, maxLength) ==
    IF uniqueSegments = << >> THEN << >>
    ELSE SrtCue(Head(uniqueSegments), index, maxLength)
         \o SrtCues(Tail(uniqueSegments), index + 1, maxLength)

\* generateSRTFromGemini(data, maxLineLength)
GenerateSRTFromGemini(dataArg, maxLength) ==
    IF dataArg.kind = "null" THEN Threw("TypeError")
    ELSE LET segments == RenderSegments(dataArg)
         IN  IF SomeTextMissing(segments) THEN Threw("TypeError")
             ELSE Returned(SrtCues(UniqueSegments(segments, 1, << >>, {}), 1, maxLength))

WebVttHeader == << "W", "E", "B", "V", "T", "T", "\n", "\n" >>

\* the two template lines appended to vttContent for one segment
VttCue(segment, maxLength) ==
    FormatVTTTime(JsOr(segment.start, 0)) \o Arrow
    \o FormatVTTTime(JsOr(segment.end, VttDefaultEnd)) \o << "\n" >>
    \o WrapText(Trim(segment.text), maxLength) \o << "\n", "\n" >>

\* uniqueSegments.forEach(...) of generateVTTFromGemini
RECURSIVE VttCues(_, _)
VttCues(uniqueSegments, maxLength) ==
    IF uniqueSegments = << >> THEN << >>
    ELSE VttCue(Head(uniqueSegments), maxLength) \o VttCues(Tail(uniqueSegments), maxLength)

\* generateVTTFromGemini(data, maxLineLength)
GenerateVTTFromGemini(dataArg, maxLength) ==
    IF dataArg.kind = "null" THEN Threw("TypeError")
    ELSE LET segments == RenderSegments(dataArg)
         IN  IF SomeTextMissing(segments) THEN Threw("TypeError")
             ELSE Returned(WebVttHeader
                           \o VttCues(UniqueSegments(segments, 1, << >>, {}), maxLength))

\* the value of a result variable before the call; it differs from every string
NotCalled == << "not called" >>

(***************************************************************************)
(* The tool dispatcher of the transcription server                         *)
(***************************************************************************)
\* the tools the switch of the dispatcher knows
ToolNames == { "transcribe_video", "transcribe_video_url", "analyze_video" }

\* new McpError(code, ...)
McpError(code) == [ kind |-> "McpError", code |-> code ]

\* what a tool method does when awaited: it returns its result, or it
\* throws an Error (no API key, no video file, a failed request)
ToolOutcomes == { "result", "Error" }

\* The try block: the result of the tool, or what is thrown inside it.
TryDispatch(name, outcome) ==
    IF name \in ToolNames
    THEN IF outcome = "result"
         THEN [ thrown |-> FALSE, value |-> [ kind |-> "result", code |-> "none" ] ]
         ELSE [ thrown |-> TRUE, value |-> [ kind |-> "Error", code |-> "none" ] ]
    ELSE [ thrown |-> TRUE, value |-> McpError("MethodNotFound") ]

\* The handler of CallToolRequestSchema: the catch block answers whatever
\* was thrown inside the try block with an InternalError.
Dispatch(name, outcome) ==
    LET tried == TryDispatch(name, outcome)
    IN  IF tried.thrown THEN McpError("InternalError") ELSE tried.value

(***************************************************************************)
(* The Puppeteer server (src/puppeteer.js): the browser and the registry   *)
(* of pages.  A page is identified by the browser it was opened in.        *)
(***************************************************************************)
\* this.browser = null
NoBrowser == 0

\* this.currentPageId = null, and a pageId argument left out
NoPage == "null"

\* a tool call that has not been answered yet
NoReply == [ tool |-> "none", pageId |-> NoPage, outcome |-> "none" ]

\* this.pages.keys()
PagesKeys(registry) == { registry[i].id : i \in DOMAIN registry }

\* this.pages.has(pageId)
PagesHas(registry, id) == id \in PagesKeys(registry)

\* this.pages.get(pageId)
PagesGet(registry, id) == registry[CHOOSE i \in DOMAIN registry : registry[i].id = id].page

\* this.pages.set(pageId, page): a key already present keeps its place
PagesSet(registry, id, page) ==
    IF PagesHas(registry, id)
    THEN [ i \in DOMAIN registry |->
             IF registry[i].id = id THEN [ id |-> id, page |-> page ] ELSE registry[i] ]
    ELSE Append(registry, [ id |-> id, page |-> page ])

\* this.pages.delete(pageId)
PagesDelete(registry, id) == SelectSeq(registry, LAMBDA e : e.id # id)

\* this.pages.size > 0 ? this.pages.keys().next().value : null
FirstKey(registry) == IF registry = << >> THEN NoPage ELSE registry[1].id

\* Mutation: the current page id is left as it is when its page is closed.
CurrentAfterCloseKept(registry, current, id) == current

\* closePage: currentPageId after pageId was deleted, registry being the
\* pages that remain
CurrentAfterClose(registry, current, id) ==
    IF current = id THEN FirstKey(registry) ELSE current

\* getPage(pageId): the page, or NoBrowser when 'Page not found' is thrown
GetPage(pageId) ==
    LET id == IF pageId # NoPage THEN pageId ELSE currentPageId
    IN  IF id = NoPage \/ ~PagesHas(pages, id) THEN NoBrowser ELSE PagesGet(pages, id)

\* the state the constructors leave: no request answered, no browser, an
\* empty registry, no call
ToolsIdle ==
    /\ answers = << >>
    /\ browser = NoBrowser
    /\ pages = << >>
    /\ currentPageId = NoPage
    /\ launched = 0
    /\ openBrowsers = {}
    /\ calls = << >>
    /\ received = 0
    /\ lastReply = NoReply

(***************************************************************************)
(* Input texts.  A text is described by the lines it is written from; each *)
(* line is an optional timestamp marker and a body.                        *)
(***************************************************************************)
\* a number below 100 written with two decimal digits
Chars(n) == << DigitSeq[(n \div 10) + 1], DigitSeq[(n % 10) + 1] >>

\* A marker: form 0 is no marker, form 2 is [MM:SS], form 3 is [HH:MM:SS];
\* wide tells whether the first field is written with two digits.
NoMark == [ form |-> 0, h |-> 0, m |-> 0, s |-> 0, wide |-> FALSE ]

Mark2(m, s) == [ form |-> 2, h |-> 0, m |-> m, s |-> s, wide |-> TRUE ]

Mark3(h, m, s) == [ form |-> 3, h |-> h, m |-> m, s |-> s, wide |-> h >= 10 ]

\* the first field of a marker as written
FirstField(n, wide) == IF wide THEN Chars(n) ELSE << DigitSeq[n + 1] >>

\* the marker as written in the text
MarkChars(mk) ==
    IF mk.form = 0 THEN << >>
    ELSE IF mk.form = 2
    THEN << "[" >> \o FirstField(mk.m, mk.wide) \o << ":" >> \o Chars(mk.s) \o << "]" >>
    ELSE << "[" >> \o FirstField(mk.h, mk.wide) \o << ":" >> \o Chars(mk.m)
         \o << ":" >> \o Chars(mk.s) \o << "]" >>

\* the offset in seconds the marker stands for
MarkOffset(mk) == mk.h * 3600 + mk.m * 60 + mk.s

wHello == << "H", "e", "l", "l", "o" >>
wWorld == << "w", "o", "r", "l", "d" >>
wThere == << "t", "h", "e", "r", "e" >>
wNext == << "N", "e", "x", "t" >>
wPart == << "p", "a", "r", "t" >>
wBegins == << "b", "e", "g", "i", "n", "s" >>
wOne == << "o", "n", "e" >>
wTwo == << "t", "w", "o" >>
wSix == << "s", "i", "x" >>
wTen == << "t", "e", "n" >>
wRed == << "r", "e", "d" >>
wSky == << "s", "k", "y" >>
wFog == << "f", "o", "g" >>

Sp == << " " >>

\* "Hello world there"
bHello == wHello \o Sp \o wWorld \o Sp \o wThere
\* "Hello, world there!"  (same normalized text as bHello)
bHelloPunct == wHello \o << "," >> \o Sp \o wWorld \o Sp \o wThere \o << "!" >>
\* "Hello  world there"  (two spaces after the first word)
bHelloWide == wHello \o Sp \o Sp \o wWorld \o Sp \o wThere
\* "Next part begins"
bNext == wNext \o Sp \o wPart \o Sp \o wBegins
\* "Next part"  (9 characters)
bShort == wNext \o Sp \o wPart
\* "one two six ten"  (15 characters)
bFour == wOne \o Sp \o wTwo \o Sp \o wSix \o Sp \o wTen
\* "one two six ten red"  (19 characters)
bFive == bFour \o Sp \o wRed
\* "one two six ten red sky"  (23 characters)
bSix == bFive \o Sp \o wSky
\* "one two six ten red sky fog"  (27 characters)
bSeven == bSix \o Sp \o wFog

Entry(mk, body) == [ mark |-> mk, body |-> body ]

\* the line as written: the marker, a space, the body
EntryLine(e) ==
    IF e.mark.form = 0 THEN e.body
    ELSE IF e.body = << >> THEN MarkChars(e.mark)
    ELSE MarkChars(e.mark) \o Sp \o e.body

\* The lines the input texts are written from.
Catalog ==
    { Entry(Mark2(0, 5), bHello),
      Entry(Mark2(0, 40), bNext),
      Entry(Mark2(0, 40), bShort),
      Entry(Mark2(0, 40), bHelloPunct),
      Entry(Mark3(1, 2, 3), << >>),
      Entry(NoMark, Sp),
      Entry(NoMark, Sp \o bHello),
      Entry(NoMark, bHelloWide),
      Entry(NoMark, bFour),
      Entry(NoMark, bFive),
      Entry(NoMark, bSix) }

\* the longest text written from free choices of catalog lines
MaxLines == 3

\* the longest run of filler lines put between two catalog lines
MaxFill == 6

\* Filler line i: four two-letter words no other line shares, 11 characters.
FillerBody(i) ==
    << LowerSeq[i], "a" >> \o Sp \o << LowerSeq[i], "b" >> \o Sp
        \o << LowerSeq[i], "c" >> \o Sp \o << LowerSeq[i], "d" >>

\* filler line i carries the marker [01:0i]
Fillers(k) == [ i \in 1..k |-> Entry(Mark2(1, i), FillerBody(i)) ]

\* the catalog lines without a marker
Unmarked == { e \in Catalog : e.mark.form = 0 }

SeqsUpTo(S, n) == UNION { [ 1..k -> S ] : k \in 0..n }

\* An input: the lines, and how many line breaks separate consecutive lines.
\* Up to MaxLines catalog lines, one per line of the text.
LineInputs == { [ lines |-> ls, sep |-> 1 ] : ls \in SeqsUpTo(Catalog, MaxLines) }

\* Up to MaxLines unmarked catalog lines with an empty line between them.
ParagraphInputs == { [ lines |-> ls, sep |-> 2 ] : ls \in SeqsUpTo(Unmarked, MaxLines) }

\* Two catalog lines with up to MaxFill filler lines between them.
LongInputs ==
    { [ lines |-> << e1 >> \o Fillers(k) \o << e2 >>, sep |-> 1 ] :
        e1 \in Catalog, e2 \in Catalog, k \in 1..MaxFill }

\* The response carries no text at all (the text is null or undefined).
MissingInput == [ lines |-> << >>, sep |-> 0 ]

Inputs == LineInputs \cup ParagraphInputs \cup LongInputs \cup { MissingInput }

\* the text of an input
RECURSIVE JoinEntries(_, _)
JoinEntries(ls, sep) ==
    IF ls = << >> THEN << >>
    ELSE IF Len(ls) = 1 THEN EntryLine(ls[1])
    ELSE EntryLine(ls[1]) \o [ i \in 1..sep |-> "\n" ] \o JoinEntries(Tail(ls), sep)

InputText(in) == IF in = MissingInput THEN Missing ELSE JoinEntries(in.lines, in.sep)

(***************************************************************************)
(* The transcription job: initial states and steps                         *)
(***************************************************************************)
\* No renderer, wrapText or time formatter has been called.
RenderIdle ==
    /\ wrapIn = << << >>, 0 >>
    /\ wrapOut = NotCalled
    /\ seconds = 0
    /\ timeCode = [ srt |-> NotCalled, vtt |-> NotCalled ]
    /\ data = NoData
    /\ maxLineLength = DefaultMaxLineLength
    /\ rendered = [ txt |-> NotRendered, srt |-> NotRendered, vtt |-> NotRendered ]

\* a job that received its text and has not started
JobInit(ins) ==
    /\ jobs = << >>
    /\ running = 0
    /\ ToolsIdle
    /\ input \in ins
    /\ textResponse = InputText(input)
    /\ pc = "ready"
    /\ lines = << >>
    /\ lineIndex = 1
    /\ cleanedLines = << >>
    /\ seenContent = {}
    /\ recentSegments = << >>
    /\ cleanedResponse = << >>
    /\ resultSegments = << >>
    /\ markerSegments = << >>
    /\ extracted = << >>

InitFrom(ins) == JobInit(ins) /\ RenderIdle

Init ==
    /\ InitFrom(Inputs)
    /\ operands = << << >>, << >> >>
    /\ similarity = << >>

\* deduplicateTranscript(textResponse) is entered: the early return, or the
\* split into lines and the fresh local state.
CallDedupe ==
    /\ pc = "ready"
    /\ IF IsFalsy(textResponse)
       THEN /\ pc' = "cleaned"
            /\ cleanedResponse' = << >>
            /\ UNCHANGED dedupeVars
       ELSE /\ pc' = "dedupe"
            /\ lines' = SplitLines(textResponse)
            /\ lineIndex' = 1
            /\ cleanedLines' = DedupeStart.cleanedLines
            /\ seenContent' = DedupeStart.seenContent
            /\ recentSegments' = DedupeStart.recentSegments
            /\ UNCHANGED cleanedResponse
    /\ UNCHANGED << input, textResponse, resultSegments, markerSegments, extracted, operands, similarity >>
    /\ UNCHANGED renderVars
    /\ UNCHANGED jobVars
    /\ UNCHANGED toolVars

\* one iteration of the loop over the lines
DedupeStep ==
    /\ pc = "dedupe"
    /\ lineIndex <= Len(lines)
    /\ LET st == [ cleanedLines |-> cleanedLines, seenContent |-> seenContent,
                   recentSegments |-> recentSegments ]
           next == DedupeLine(st, lines[lineIndex])
       IN  /\ cleanedLines' = next.cleanedLines
           /\ seenContent' = next.seenContent
           /\ recentSegments' = next.recentSegments
    /\ lineIndex' = lineIndex + 1
    /\ UNCHANGED << input, textResponse, pc, lines, cleanedResponse, resultSegments,
                    markerSegments, extracted, operands, similarity >>
    /\ UNCHANGED renderVars
    /\ UNCHANGED jobVars
    /\ UNCHANGED toolVars

\* return cleanedLines.join('\n')
DedupeReturn ==
    /\ pc = "dedupe"
    /\ lineIndex > Len(lines)
    /\ cleanedResponse' = JoinLines(cleanedLines)
    /\ pc' = "cleaned"
    /\ UNCHANGED << input, textResponse, resultSegments, markerSegments, extracted, operands, similarity >>
    /\ UNCHANGED dedupeVars
    /\ UNCHANGED renderVars
    /\ UNCHANGED jobVars
    /\ UNCHANGED toolVars

\* segments: this.parseTextIntoSegments(cleanedResponse)
ParseCleaned ==
    /\ pc = "cleaned"
    /\ resultSegments' = ParseTextIntoSegments(cleanedResponse)
    /\ markerSegments' = MarkerSegments(cleanedResponse)
    /\ pc' = "transcribed"
    /\ UNCHANGED << input, textResponse, cleanedResponse, extracted, operands, similarity >>
    /\ UNCHANGED dedupeVars
    /\ UNCHANGED renderVars
    /\ UNCHANGED jobVars
    /\ UNCHANGED toolVars

\* extractTextFromGeminiResponse(transcriptionData) when the text file is written
ExtractText ==
    /\ pc = "transcribed"
    /\ extracted' = ExtractTextFromGeminiResponse(TranscriptionResult(cleanedResponse, resultSegments))
    /\ pc' = "extracted"
    /\ UNCHANGED << input, textResponse, cleanedResponse, resultSegments, markerSegments, operands, similarity >>
    /\ UNCHANGED dedupeVars
    /\ UNCHANGED renderVars
    /\ UNCHANGED jobVars
    /\ UNCHANGED toolVars

\* parseTextIntoSegments called on the raw text itself.  On a missing text
\* timestampRegex.exec finds nothing and text.split throws a TypeError.
ParseRaw ==
    /\ pc = "ready"
    /\ IF textResponse = Missing
       THEN /\ pc' = "TypeError"
            /\ UNCHANGED << resultSegments, markerSegments >>
       ELSE /\ resultSegments' = ParseTextIntoSegments(textResponse)
            /\ markerSegments' = MarkerSegments(textResponse)
            /\ pc' = "parsed"
    /\ UNCHANGED << input, textResponse, cleanedResponse, extracted, operands, similarity >>
    /\ UNCHANGED dedupeVars
    /\ UNCHANGED renderVars
    /\ UNCHANGED jobVars
    /\ UNCHANGED toolVars

\* calculateSimilarity(str1, str2) is called on the operands
CalcSimilarity ==
    /\ similarity = << >>
    /\ similarity' = CalculateSimilarity(operands[1], operands[2])
    /\ UNCHANGED << input, textResponse, pc, cleanedResponse, resultSegments, markerSegments,
                    extracted, operands >>
    /\ UNCHANGED dedupeVars
    /\ UNCHANGED renderVars
    /\ UNCHANGED jobVars
    /\ UNCHANGED toolVars

Next ==
    \/ CallDedupe
    \/ DedupeStep
    \/ DedupeReturn
    \/ ParseCleaned
    \/ ExtractText
    \/ ParseRaw

Spec == Init /\ [][Next]_vars

(***************************************************************************)
(* calculateSimilarity on its own: every pair of operands                  *)
(***************************************************************************)
\* the most words an operand is written from
MaxWords == 3

SimWords == { wOne, wTwo, wSix }

RECURSIVE JoinWords(_)
JoinWords(ws) ==
    IF ws = << >> THEN << >>
    ELSE IF Len(ws) = 1 THEN ws[1]
    ELSE ws[1] \o Sp \o JoinWords(Tail(ws))

\* Operands: up to MaxWords words with single spaces (a word may repeat), a
\* missing operand, and operands with other white space.
SimStrings ==
    { JoinWords(ws) : ws \in SeqsUpTo(SimWords, MaxWords) }
    \cup { Missing,
           Sp,
           Sp \o wOne,
           wOne \o Sp,
           wOne \o Sp \o Sp \o wTwo,
           wOne \o << "\t" >> \o wTwo \o << "\n" >> \o wSix }

InitSim ==
    /\ InitFrom({ [ lines |-> << >>, sep |-> 1 ] })
    /\ operands \in SimStrings \X SimStrings
    /\ similarity = << >>

SpecSim == InitSim /\ [][CalcSimilarity]_vars

(***************************************************************************)
(* Texts of one line, over every way of writing a marker                   *)
(***************************************************************************)
\* the values the fields of a marker take
TimeValues == { 0, 1, 2, 3, 5, 9, 10, 40, 59, 99 }

\* every marker with fields from TimeValues; a first field below ten is
\* written with one digit or with two
Markers ==
    { [ form |-> 3, h |-> h, m |-> m, s |-> s, wide |-> w ] :
        h \in TimeValues, m \in TimeValues, s \in TimeValues, w \in BOOLEAN }
    \cup { [ form |-> 2, h |-> 0, m |-> m, s |-> s, wide |-> w ] :
             m \in TimeValues, s \in TimeValues, w \in BOOLEAN }

WritableMarkers ==
    { mk \in Markers : mk.wide \/ (IF mk.form = 3 THEN mk.h ELSE mk.m) < 10 }

MarkerInputs == { [ lines |-> << Entry(mk, bNext) >>, sep |-> 1 ] : mk \in WritableMarkers }

InitMarker ==
    /\ InitFrom(MarkerInputs)
    /\ operands = << << >>, << >> >>
    /\ similarity = << >>

SpecMarker == InitMarker /\ [][Next]_vars

(***************************************************************************)
(* wrapText on its own                                                     *)
(***************************************************************************)
\* the job variables of a state in which no transcription job runs
NoJob ==
    /\ JobInit({ [ lines |-> << >>, sep |-> 1 ] })
    /\ operands = << << >>, << >> >>
    /\ similarity = << >>

\* the most words a wrapped text is written from
MaxWrapWords == 4

\* "aaaaaaaaaaaa"  (12 characters)
wLong == [ i \in 1..12 |-> "a" ]

\* the words of the wrapped texts; the empty word gives leading, trailing
\* and doubled spaces
WrapWords ==
    { << >>, << "a" >>, << "a", "a", "a", "a" >>, << "b", "b", "b", "b" >>,
      << "c", "c", "c", "c" >>, wLong }

WrapTexts ==
    { JoinWords(ws) : ws \in SeqsUpTo(WrapWords, MaxWrapWords) }
    \cup { << "a", "a", "a", "a", "\n", "b", "b", "b", "b" >> \o Sp \o << "c", "c", "c", "c" >>,
           << "a", "a", "\t", "b", "b" >> \o Sp \o wLong }

WrapLengths == { 0, 4, 5, 9, 10, 80 }

\* wrapText(text, maxLength) is called
CallWrapText ==
    /\ wrapOut = NotCalled
    /\ wrapOut' = WrapText(wrapIn[1], wrapIn[2])
    /\ UNCHANGED << input, textResponse, pc, cleanedResponse, resultSegments, markerSegments,
                    extracted, operands, similarity >>
    /\ UNCHANGED dedupeVars
    /\ UNCHANGED << wrapIn, seconds, timeCode, data, maxLineLength, rendered >>
    /\ UNCHANGED jobVars
    /\ UNCHANGED toolVars

InitWrap ==
    /\ NoJob
    /\ wrapIn \in WrapTexts \X WrapLengths
    /\ wrapOut = NotCalled
    /\ seconds = 0
    /\ timeCode = [ srt |-> NotCalled, vtt |-> NotCalled ]
    /\ data = NoData
    /\ maxLineLength = DefaultMaxLineLength
    /\ rendered = [ txt |-> NotRendered, srt |-> NotRendered, vtt |-> NotRendered ]

SpecWrap == InitWrap /\ [][CallWrapText]_vars

(***************************************************************************)
(* formatSRTTime and formatVTTTime on their own                            *)
(***************************************************************************)
ClockHours == { 0, 1, 9, 10, 23, 24, 25, 99, 100 }
ClockMinutes == { 0, 1, 9, 10, 59 }
ClockSeconds == { 0, 1, 9, 10, 59 }

\* formatSRTTime(seconds) is called
CallFormatSRTTime ==
    /\ timeCode.srt = NotCalled
    /\ timeCode' = [ timeCode EXCEPT !.srt = FormatSRTTime(seconds) ]
    /\ UNCHANGED << input, textResponse, pc, cleanedResponse, resultSegments, markerSegments,
                    extracted, operands, similarity >>
    /\ UNCHANGED dedupeVars
    /\ UNCHANGED << wrapIn, wrapOut, seconds, data, maxLineLength, rendered >>
    /\ UNCHANGED jobVars
    /\ UNCHANGED toolVars

\* formatVTTTime(seconds) is called
CallFormatVTTTime ==
    /\ timeCode.vtt = NotCalled
    /\ timeCode' = [ timeCode EXCEPT !.vtt = FormatVTTTime(seconds) ]
    /\ UNCHANGED << input, textResponse, pc, cleanedResponse, resultSegments, markerSegments,
                    extracted, operands, similarity >>
    /\ UNCHANGED dedupeVars
    /\ UNCHANGED << wrapIn, wrapOut, seconds, data, maxLineLength, rendered >>
    /\ UNCHANGED jobVars
    /\ UNCHANGED toolVars

InitClock ==
    /\ NoJob
    /\ wrapIn = << << >>, 0 >>
    /\ wrapOut = NotCalled
    /\ seconds \in { h * 3600 + m * 60 + sec :
                       h \in ClockHours, m \in ClockMinutes, sec \in ClockSeconds }
    /\ timeCode = [ srt |-> NotCalled, vtt |-> NotCalled ]
    /\ data = NoData
    /\ maxLineLength = DefaultMaxLineLength
    /\ rendered = [ txt |-> NotRendered, srt |-> NotRendered, vtt |-> NotRendered ]

NextClock ==
    \/ CallFormatSRTTime
    \/ CallFormatVTTTime

SpecClock == InitClock /\ [][NextClock]_vars

(***************************************************************************)
(* The renderers on their own: every transcription result of a catalog     *)
(***************************************************************************)
\* the longest segment list handed to a renderer
MaxSegments == 3

Segment(start, end, text) == [ start |-> start, end |-> end, text |-> text ]

\* The segments the lists are written from: texts equal up to case and
\* punctuation, up to surrounding or doubled white space, empty and blank
\* texts, an entry without text, a start of 0 and an end of 0.
SegmentCatalog ==
    { Segment(5, 40, bHello),
      Segment(40, 70, bHelloPunct),
      Segment(0, 30, bNext),
      Segment(70, 0, bHelloWide),
      Segment(3723, 3753, Sp \o bHello \o Sp),
      Segment(40, 70, << >>),
      Segment(40, 70, Sp),
      Segment(5, 40, Missing) }

\* the texts of the results that carry no segment list
RenderTexts ==
    { << >>,
      InputText([ lines |-> << Entry(Mark2(0, 5), bHello), Entry(Mark2(0, 5), bHello),
                               Entry(Mark2(0, 40), bNext) >>, sep |-> 1 ]),
      InputText([ lines |-> << Entry(Mark2(0, 40), bNext), Entry(Mark2(0, 0), bFive) >>,
                  sep |-> 1 ]),
      InputText([ lines |-> << Entry(NoMark, bFour), Entry(NoMark, bSix) >>, sep |-> 2 ]) }

RenderInputs ==
    { SegmentsOnly(segs) : segs \in SeqsUpTo(SegmentCatalog, MaxSegments) }
    \cup { TranscriptionResult(DeduplicateTranscript(t),
                               ParseTextIntoSegments(DeduplicateTranscript(t))) :
             t \in RenderTexts }
    \cup { StringData(t) : t \in RenderTexts }
    \cup { [ kind |-> "object", text |-> t, hasSegments |-> FALSE, segments |-> << >> ] :
             t \in RenderTexts \cup { Missing } }
    \cup { NoData }

RenderLengths == { 9, DefaultMaxLineLength }

\* case 'txt': extractTextFromGeminiResponse(transcriptionData)
RenderText ==
    /\ rendered.txt = NotRendered
    /\ rendered' = [ rendered EXCEPT !.txt = Returned(ExtractTextFromGeminiResponse(data)) ]
    /\ UNCHANGED << input, textResponse, pc, cleanedResponse, resultSegments, markerSegments,
                    extracted, operands, similarity >>
    /\ UNCHANGED dedupeVars
    /\ UNCHANGED << wrapIn, wrapOut, seconds, timeCode, data, maxLineLength >>
    /\ UNCHANGED jobVars
    /\ UNCHANGED toolVars

\* case 'srt': generateSRTFromGemini(transcriptionData, maxLineLength)
RenderSRT ==
    /\ rendered.srt = NotRendered
    /\ rendered' = [ rendered EXCEPT !.srt = GenerateSRTFromGemini(data, maxLineLength) ]
    /\ UNCHANGED << input, textResponse, pc, cleanedResponse, resultSegments, markerSegments,
                    extracted, operands, similarity >>
    /\ UNCHANGED dedupeVars
    /\ UNCHANGED << wrapIn, wrapOut, seconds, timeCode, data, maxLineLength >>
    /\ UNCHANGED jobVars
    /\ UNCHANGED toolVars

\* case 'vtt': generateVTTFromGemini(transcriptionData, maxLineLength)
RenderVTT ==
    /\ rendered.vtt = NotRendered
    /\ rendered' = [ rendered EXCEPT !.vtt = GenerateVTTFromGemini(data, maxLineLength) ]
    /\ UNCHANGED << input, textResponse, pc, cleanedResponse, resultSegments, markerSegments,
                    extracted, operands, similarity >>
    /\ UNCHANGED dedupeVars
    /\ UNCHANGED << wrapIn, wrapOut, seconds, timeCode, data, maxLineLength >>
    /\ UNCHANGED jobVars
    /\ UNCHANGED toolVars

InitRender ==
    /\ NoJob
    /\ wrapIn = << << >>, 0 >>
    /\ wrapOut = NotCalled
    /\ seconds = 0
    /\ timeCode = [ srt |-> NotCalled, vtt |-> NotCalled ]
    /\ data \in RenderInputs
    /\ maxLineLength \in RenderLengths
    /\ rendered = [ txt |-> NotRendered, srt |-> NotRendered, vtt |-> NotRendered ]

NextRender ==
    \/ RenderText
    \/ RenderSRT
    \/ RenderVTT

SpecRender == InitRender /\ [][NextRender]_vars

(***************************************************************************)
(* Several transcription jobs on one server.  A job waits for the answer   *)
(* of the generative model (await axios.post); when the answer arrives the *)
(* rest of callGeminiForTranscription runs without an await, so the        *)
(* clean-up of one job runs to its end before the next answer is handled.  *)
(* The variables of deduplicateTranscript are those of the call that runs. *)
(***************************************************************************)
\* the number of jobs the server handles
MaxJobs == 2

\* the texts the jobs receive: they share lines with each other
JobInputs ==
    { [ lines |-> ls, sep |-> 1 ] :
        ls \in { << Entry(Mark2(0, 5), bHello) >>,
                 << Entry(Mark2(0, 5), bHello), Entry(Mark2(0, 40), bNext) >>,
                 << Entry(Mark2(0, 40), bNext), Entry(Mark2(0, 5), bHelloPunct) >>,
                 << Entry(NoMark, bFive), Entry(NoMark, bSix) >> } }

\* the answer for job j arrives: response.data.candidates[0].content.parts[0].text
JobResponse(j) ==
    /\ running = 0
    /\ jobs[j].status = "waiting"
    /\ running' = j
    /\ UNCHANGED jobs
    /\ input' = jobs[j].input
    /\ textResponse' = InputText(jobs[j].input)
    /\ pc' = "ready"
    /\ UNCHANGED << cleanedResponse, resultSegments, markerSegments, extracted, operands,
                    similarity >>
    /\ UNCHANGED dedupeVars
    /\ UNCHANGED renderVars
    /\ UNCHANGED toolVars

\* return { text: cleanedResponse, segments: ... }: the job has its result
JobReturn ==
    /\ running # 0
    /\ pc = "transcribed"
    /\ jobs' = [ jobs EXCEPT ![running] =
                   [ @ EXCEPT !.status = "done",
                              !.text = cleanedResponse,
                              !.segments = resultSegments ] ]
    /\ running' = 0
    /\ pc' = "idle"
    /\ UNCHANGED << input, textResponse, cleanedResponse, resultSegments, markerSegments,
                    extracted, operands, similarity >>
    /\ UNCHANGED dedupeVars
    /\ UNCHANGED renderVars
    /\ UNCHANGED toolVars

InitJobs ==
    /\ jobs \in [ 1..MaxJobs ->
                   { [ input |-> in, status |-> "waiting", text |-> << >>, segments |-> << >> ] :
                       in \in JobInputs } ]
    /\ running = 0
    /\ input = [ lines |-> << >>, sep |-> 1 ]
    /\ textResponse = << >>
    /\ pc = "idle"
    /\ lines = << >>
    /\ lineIndex = 1
    /\ cleanedLines = << >>
    /\ seenContent = {}
    /\ recentSegments = << >>
    /\ cleanedResponse = << >>
    /\ resultSegments = << >>
    /\ markerSegments = << >>
    /\ extracted = << >>
    /\ operands = << << >>, << >> >>
    /\ similarity = << >>
    /\ RenderIdle
    /\ ToolsIdle

NextJobs ==
    \/ \E j \in 1..MaxJobs : JobResponse(j)
    \/ CallDedupe
    \/ DedupeStep
    \/ DedupeReturn
    \/ ParseCleaned
    \/ JobReturn

SpecJobs == InitJobs /\ [][NextJobs]_vars

(***************************************************************************)
(* The tool dispatcher of the transcription server: requests answered      *)
(***************************************************************************)
transcriptVars == << input, textResponse, pc, cleanedResponse, resultSegments,
                     markerSegments, extracted, operands, similarity >>

puppeteerVars == << browser, pages, currentPageId, launched, openBrowsers, calls,
                    received, lastReply >>

\* the most requests the dispatcher is sent
MaxRequests == 3

\* the names a request may carry: the three tools, a name no case matches,
\* and the empty name
RequestNames == ToolNames \cup { "unknown_tool", "" }

\* A tools/call request is handled: request.params.name is dispatched and
\* the request is answered.
CallTool ==
    /\ Len(answers) < MaxRequests
    /\ \E name \in RequestNames, outcome \in ToolOutcomes :
          answers' = Append(answers, [ name   |-> name,
                                       tried  |-> TryDispatch(name, outcome),
                                       answer |-> Dispatch(name, outcome) ])
    /\ UNCHANGED << transcriptVars, dedupeVars, renderVars, jobVars, puppeteerVars >>

InitDispatch == NoJob /\ RenderIdle

SpecDispatch == InitDispatch /\ [][CallTool]_vars

(***************************************************************************)
(* The Puppeteer server: tool calls.  A call runs from its start, or from  *)
(* the await it is suspended at, to its next await or to its answer; the   *)
(* calls the server has received interleave at their awaits.               *)
(***************************************************************************)
\* the most tool calls the server receives
MaxCalls == 4

\* the page ids of the calls
PageIds == { "default", "a" }

\* a suspended call: the tool, its pageId, the operation awaited, and the
\* browser that operation belongs to
Call(tool, pageId, at, b) == [ tool |-> tool, pageId |-> pageId, at |-> at, b |-> b ]

\* the answer of the dispatcher: the tool's result, or isError: true
Answer(tool, pageId, outcome) == [ tool |-> tool, pageId |-> pageId, outcome |-> outcome ]

Without(sq, i) == SubSeq(sq, 1, i - 1) \o SubSeq(sq, i + 1, Len(sq))

Suspended(i, tool, at) == i \in DOMAIN calls /\ calls[i].tool = tool /\ calls[i].at = at

Unrelated == UNCHANGED << transcriptVars, dedupeVars, renderVars, jobVars, answers >>

\* launchBrowser starts: the browser held is closed and its close awaited,
\* or puppeteer.launch is called at once and awaited.
LaunchBrowser ==
    /\ received < MaxCalls
    /\ received' = received + 1
    /\ IF browser # NoBrowser
       THEN /\ openBrowsers' = openBrowsers \ { browser }
            /\ calls' = Append(calls, Call("launch_browser", NoPage, "browser.close", browser))
       ELSE /\ UNCHANGED openBrowsers
            /\ calls' = Append(calls, Call("launch_browser", NoPage, "puppeteer.launch", NoBrowser))
    /\ UNCHANGED << browser, pages, currentPageId, launched, lastReply >>
    /\ Unrelated

\* await this.browser.close() returns: puppeteer.launch is called
LaunchBrowserClosed(i) ==
    /\ Suspended(i, "launch_browser", "browser.close")
    /\ calls' = [ calls EXCEPT ![i].at = "puppeteer.launch" ]
    /\ UNCHANGED << browser, pages, currentPageId, launched, openBrowsers, received, lastReply >>
    /\ Unrelated

\* await puppeteer.launch(...) returns a new browser: it is assigned to
\* this.browser and its pages are asked for
LaunchBrowserLaunched(i) ==
    /\ Suspended(i, "launch_browser", "puppeteer.launch")
    /\ launched' = launched + 1
    /\ openBrowsers' = openBrowsers \cup { launched + 1 }
    /\ browser' = launched + 1
    /\ calls' = [ calls EXCEPT ![i].at = "browser.pages", ![i].b = launched + 1 ]
    /\ UNCHANGED << pages, currentPageId, received, lastReply >>
    /\ Unrelated

\* await this.browser.pages() returns: the viewport of pages[0] is set
LaunchBrowserPages(i) ==
    /\ Suspended(i, "launch_browser", "browser.pages")
    /\ calls' = [ calls EXCEPT ![i].at = "setViewport" ]
    /\ UNCHANGED << browser, pages, currentPageId, launched, openBrowsers, received, lastReply >>
    /\ Unrelated

\* await defaultPage.setViewport(...) returns: 'default' is made the current
\* page and registered, and the call is answered
LaunchBrowserViewport(i) ==
    /\ Suspended(i, "launch_browser", "setViewport")
    /\ currentPageId' = "default"
    /\ pages' = PagesSet(pages, "default", calls[i].b)
    /\ calls' = Without(calls, i)
    /\ lastReply' = Answer("launch_browser", NoPage, "returned")
    /\ UNCHANGED << browser, launched, openBrowsers, received >>
    /\ Unrelated

\* newPage starts: it throws without a browser or for a registered pageId,
\* else this.browser.newPage() is called and awaited
NewPage(pageId) ==
    /\ received < MaxCalls
    /\ received' = received + 1
    /\ IF browser = NoBrowser \/ PagesHas(pages, pageId)
       THEN /\ lastReply' = Answer("new_page", pageId, "error")
            /\ UNCHANGED calls
       ELSE /\ calls' = Append(calls, Call("new_page", pageId, "browser.newPage", browser))
            /\ UNCHANGED lastReply
    /\ UNCHANGED << browser, pages, currentPageId, launched, openBrowsers >>
    /\ Unrelated

\* await this.browser.newPage() returns: the page is registered and made
\* the current page
NewPageCreated(i) ==
    /\ Suspended(i, "new_page", "browser.newPage")
    /\ pages' = PagesSet(pages, calls[i].pageId, calls[i].b)
    /\ currentPageId' = calls[i].pageId
    /\ calls' = Without(calls, i)
    /\ lastReply' = Answer("new_page", calls[i].pageId, "returned")
    /\ UNCHANGED << browser, launched, openBrowsers, received >>
    /\ Unrelated

\* closePage starts: it throws for a pageId that is not registered, else
\* page.close() is called and awaited
ClosePage(pageId) ==
    /\ received < MaxCalls
    /\ received' = received + 1
    /\ IF ~PagesHas(pages, pageId)
       THEN /\ lastReply' = Answer("close_page", pageId, "error")
            /\ UNCHANGED calls
       ELSE /\ calls' = Append(calls, Call("close_page", pageId, "page.close",
                                            PagesGet(pages, pageId)))
            /\ UNCHANGED lastReply
    /\ UNCHANGED << browser, pages, currentPageId, launched, openBrowsers >>
    /\ Unrelated

\* await page.close() returns: the pageId is deleted and the current page
\* id moved when it was that one
ClosePageClosed(i) ==
    /\ Suspended(i, "close_page", "page.close")
    /\ pages' = PagesDelete(pages, calls[i].pageId)
    /\ currentPageId' = CurrentAfterClose(PagesDelete(pages, calls[i].pageId), currentPageId,
                                          calls[i].pageId)
    /\ calls' = Without(calls, i)
    /\ lastReply' = Answer("close_page", calls[i].pageId, "returned")
    /\ UNCHANGED << browser, launched, openBrowsers, received >>
    /\ Unrelated

\* closeBrowser starts: the browser held is closed and its close awaited;
\* without a browser the call is answered at once
CloseBrowser ==
    /\ received < MaxCalls
    /\ received' = received + 1
    /\ IF browser # NoBrowser
       THEN /\ openBrowsers' = openBrowsers \ { browser }
            /\ calls' = Append(calls, Call("close_browser", NoPage, "browser.close", browser))
            /\ UNCHANGED lastReply
       ELSE /\ lastReply' = Answer("close_browser", NoPage, "returned")
            /\ UNCHANGED << openBrowsers, calls >>
    /\ UNCHANGED << browser, pages, currentPageId, launched >>
    /\ Unrelated

\* await this.browser.close() returns: the browser, the registry and the
\* current page id are reset
CloseBrowserClosed(i) ==
    /\ Suspended(i, "close_browser", "browser.close")
    /\ browser' = NoBrowser
    /\ pages' = << >>
    /\ currentPageId' = NoPage
    /\ calls' = Without(calls, i)
    /\ lastReply' = Answer("close_browser", NoPage, "returned")
    /\ UNCHANGED << launched, openBrowsers, received >>
    /\ Unrelated

\* An operation awaited on a browser that was closed in the meantime (its
\* pages, a viewport, a new page, the close of one of its pages) is rejected:
\* the call throws and is answered with isError: true.
Rejected(i) ==
    /\ i \in DOMAIN calls
    /\ calls[i].at \in { "browser.pages", "setViewport", "browser.newPage", "page.close" }
    /\ calls[i].b \notin openBrowsers
    /\ calls' = Without(calls, i)
    /\ lastReply' = Answer(calls[i].tool, calls[i].pageId, "error")
    /\ UNCHANGED << browser, pages, currentPageId, launched, openBrowsers, received >>
    /\ Unrelated

InitPuppeteer == NoJob /\ RenderIdle

\* a call goes on from the await it is suspended at
Resume ==
    \E i \in 1..MaxCalls :
        \/ LaunchBrowserClosed(i)
        \/ LaunchBrowserLaunched(i)
        \/ LaunchBrowserPages(i)
        \/ LaunchBrowserViewport(i)
        \/ NewPageCreated(i)
        \/ ClosePageClosed(i)
        \/ CloseBrowserClosed(i)
        \/ Rejected(i)

\* the calls are handled as they arrive and interleave at their awaits
NextPuppeteer ==
    \/ LaunchBrowser
    \/ \E pageId \in PageIds : NewPage(pageId)
    \/ \E pageId \in PageIds : ClosePage(pageId)
    \/ CloseBrowser
    \/ Resume

SpecPuppeteer == InitPuppeteer /\ [][NextPuppeteer]_vars

\* the client sends a call when the call before it has been answered
NextOneByOne ==
    \/ calls = << >> /\ LaunchBrowser
    \/ \E pageId \in PageIds : calls = << >> /\ NewPage(pageId)
    \/ \E pageId \in PageIds : calls = << >> /\ ClosePage(pageId)
    \/ calls = << >> /\ CloseBrowser
    \/ Resume

SpecOneByOne == InitPuppeteer /\ [][NextOneByOne]_vars

(***************************************************************************)
(* parseTextIntoSegments on texts of three marked lines, the markers in    *)
(* any order                                                               *)
(***************************************************************************)
\* [00:05], [00:40], [01:01] and [1:02:03]
OrderMarks == { Mark2(0, 5), Mark2(0, 40), Mark2(1, 1), Mark3(1, 2, 3) }

\* two bodies with the same normalized text, an empty body, another body
OrderBodies == { bHello, bHelloPunct, << >>, bNext }

OrderEntries == { Entry(mk, body) : mk \in OrderMarks, body \in OrderBodies }

OrderInputs ==
    { [ lines |-> << e1, e2, e3 >>, sep |-> 1 ] :
        e1 \in OrderEntries, e2 \in OrderEntries, e3 \in OrderEntries }

InitOrder ==
    /\ InitFrom(OrderInputs)
    /\ operands = << << >>, << >> >>
    /\ similarity = << >>

SpecOrder == InitOrder /\ [][Next]_vars

(***************************************************************************)
(* Notions the properties are stated with                                  *)
(***************************************************************************)
\* The fields of a string between its maximal runs of white space, as a set:
\* every maximal run of other characters, and the empty field when the string
\* is empty or starts or ends with white space.
Fields(str) ==
    { SubSeq(str, i, j) : << i, j >> \in
        { ij \in (DOMAIN str) \X (DOMAIN str) :
            /\ ij[1] <= ij[2]
            /\ \A k \in ij[1]..ij[2] : ~IsSpace(str[k])
            /\ (ij[1] = 1 \/ IsSpace(str[ij[1] - 1]))
            /\ (ij[2] = Len(str) \/ IsSpace(str[ij[2] + 1])) } }
    \cup IF str = << >> \/ IsSpace(str[1]) \/ IsSpace(str[Len(str)]) THEN { << >> } ELSE {}

\* The Jaccard index of the field sets of two strings, as << |A n B|, |A u B| >>.
Jaccard(a, b) ==
    << Cardinality(Fields(a) \cap Fields(b)), Cardinality(Fields(a) \cup Fields(b)) >>

\* quotients p and q are the same number
SameQuotient(p, q) == p[1] * q[2] = q[1] * p[2]

\* The words of a text in order: lower case, punctuation removed, white space
\* collapsed.  Two texts have the same words exactly when their lower-case,
\* punctuation-stripped, whitespace-collapsed views are equal.
RECURSIVE WordsFrom(_, _)
WordsFrom(str, i) ==
    IF i > Len(str) THEN << >>
    ELSE IF IsSpace(str[i]) THEN WordsFrom(str, i + 1)
    ELSE LET stops == { j \in i..Len(str) : IsSpace(str[j]) }
             j == IF stops = {} THEN Len(str) + 1 ELSE SetMin(stops)
         IN  << SubSeq(str, i, j - 1) >> \o WordsFrom(str, j)

\* A text in lower case with every character removed that is neither a word
\* character nor white space; white space stays as written.
LowerStripped(str) ==
    SelectSeq([ i \in DOMAIN str |-> ToLowerChar(str[i]) ],
              LAMBDA c : IsWordChar(c) \/ IsSpace(c))

CollapsedNormalized(str) == WordsFrom(LowerStripped(str), 1)

\* the entries of an input that carry a marker, in order
MarkedLines(in) == SelectSeq(in.lines, LAMBDA e : e.mark.form # 0)

\* the job has produced a segment list
HasSegments == pc \in { "parsed", "transcribed", "extracted" }

\* the kept lines of the cleaned text that are not blank
KeptLines == SelectSeq(cleanedLines, LAMBDA l : l # << >>)

\* the normalized content of a kept line
KeptNormalized(l) == NormalizeText(LineContent(Trim(l)))

(***************************************************************************)
(* Properties                                                              *)
(***************************************************************************)

\* C1: deduplicateTranscript is idempotent: the second pass, made by
\* extractTextFromGeminiResponse over the cleaned text, returns the cleaned
\* text unchanged.
C1_Idempotent == pc = "extracted" => extracted = cleanedResponse

\* C1 witness: the first pass kept several lines and dropped at least one,
\* and the second pass has run.
C1_Witness ==
    /\ pc = "extracted"
    /\ Len(KeptLines) >= 2
    /\ Len(cleanedLines) < Len(lines)
    /\ cleanedResponse # textResponse

\* C2 (as claimed): in every list parseTextIntoSegments returns, the segments
\* are ordered by non-decreasing start.
C2_OrderedByStart ==
    HasSegments =>
        \A i \in 1..(Len(resultSegments) - 1) :
            resultSegments[i].start <= resultSegments[i + 1].start

\* C3 (as claimed): no two returned segments have equal lower-case,
\* punctuation-stripped, whitespace-collapsed text.
C3_NoEqualCollapsed ==
    HasSegments =>
        \A i, j \in DOMAIN resultSegments :
            i < j => CollapsedNormalized(resultSegments[i].text)
                     # CollapsedNormalized(resultSegments[j].text)

\* C3 (amended): no two returned segments have equal lower-case,
\* punctuation-stripped text, white space compared as written (not collapsed);
\* on the marker path and on the paragraph path.
C3_NoEqualNormalized ==
    HasSegments =>
        \A i, j \in DOMAIN resultSegments :
            i < j => LowerStripped(resultSegments[i].text) # LowerStripped(resultSegments[j].text)

\* C3 witness: the raw text has two markers followed by texts that differ in
\* case or punctuation only, and a list of at least two segments was returned.
C3_Witness ==
    /\ pc = "parsed"
    /\ Len(resultSegments) >= 2
    /\ \E i, j \in DOMAIN input.lines :
          /\ i < j
          /\ input.lines[i].mark.form # 0
          /\ input.lines[j].mark.form # 0
          /\ input.lines[i].body # input.lines[j].body
          /\ input.lines[i].body # << >>
          /\ CollapsedNormalized(input.lines[i].body) = CollapsedNormalized(input.lines[j].body)

\* C4 (as claimed): no two segments of a final list have normalized texts
\* whose Jaccard similarity exceeds 0.8.
C4_NoSimilarSegments ==
    HasSegments =>
        \A i, j \in DOMAIN resultSegments :
            i < j => ~ExceedsThreshold(Jaccard(NormalizeText(resultSegments[i].text),
                                               NormalizeText(resultSegments[j].text)))

\* C4 (amended): in the cleaned text, no kept line has a non-empty normalized
\* content whose Jaccard similarity with the normalized content of one of the
\* five kept lines before it exceeds 0.8.
C4_NoSimilarWithinWindow ==
    pc = "cleaned" =>
        \A i, j \in DOMAIN KeptLines :
            (i < j /\ j - i <= 5 /\ KeptNormalized(KeptLines[i]) # << >>
                   /\ KeptNormalized(KeptLines[j]) # << >>)
            => ~ExceedsThreshold(Jaccard(KeptNormalized(KeptLines[i]),
                                         KeptNormalized(KeptLines[j])))

\* C4 witness: a line five kept lines after a near-duplicate of it was dropped.
C4_Witness ==
    /\ pc = "cleaned"
    /\ Len(input.lines) = 6
    /\ Len(KeptLines) = 5
    /\ input.lines[1].body # input.lines[6].body
    /\ ExceedsThreshold(Jaccard(NormalizeText(input.lines[1].body),
                                NormalizeText(input.lines[6].body)))

\* C5: calculateSimilarity returns 0 when an operand is empty or missing and
\* otherwise the Jaccard index of the sets of whitespace-separated fields of
\* its operands; so it is symmetric, lies in [0, 1], is 1 for identical
\* non-empty operands and 0 for two empty strings.
C5_SimilarityIsJaccard ==
    similarity # << >> =>
        LET a == operands[1]
            b == operands[2]
            absent(x) == x = << >> \/ x = Missing
        IN  /\ (absent(a) \/ absent(b)) => similarity[1] = 0
            /\ ~(absent(a) \/ absent(b)) => SameQuotient(similarity, Jaccard(a, b))
            /\ SameQuotient(similarity, CalculateSimilarity(b, a))
            /\ similarity[2] > 0
            /\ 0 <= similarity[1]
            /\ similarity[1] <= similarity[2]
            /\ (a = b /\ ~absent(a)) => similarity[1] = similarity[2]
            /\ (a = << >> /\ b = << >>) => similarity[1] = 0

\* C5 witness: two different operands that share a word, one of them with a
\* repeated word, scored strictly between 0 and 1.
C5_Witness ==
    /\ similarity # << >>
    /\ operands[1] # Missing
    /\ Len(SplitWhitespace(operands[1])) > Cardinality(Fields(operands[1]))
    /\ 0 < similarity[1]
    /\ similarity[1] < similarity[2]

\* the one line of the input carries a marker
OneMarkedLine == Len(input.lines) = 1 /\ input.lines[1].mark.form # 0

\* C6: a marker with three groups [H:MM:SS] parses to H*3600 + MM*60 + SS,
\* also when the seconds are 00, and a marker with two groups [MM:SS] to
\* MM*60 + SS; "[1:02:03]" gives 3723 and "[02:03]" gives 123.
C6_MarkerOffset ==
    (pc \in { "parsed", "transcribed" } /\ OneMarkedLine) =>
        LET mk == input.lines[1].mark
        IN  /\ Len(resultSegments) = 1
            /\ mk.form = 3 => resultSegments[1].start = mk.h * 3600 + mk.m * 60 + mk.s
            /\ mk.form = 2 => resultSegments[1].start = mk.m * 60 + mk.s
            /\ MarkChars(mk) = << "[", "1", ":", "0", "2", ":", "0", "3", "]" >>
                 => resultSegments[1].start = 3723
            /\ MarkChars(mk) = << "[", "0", "2", ":", "0", "3", "]" >>
                 => resultSegments[1].start = 123

\* C6 witness: "[1:02:00]", three groups with seconds 00, has been parsed.
C6_Witness ==
    /\ pc = "parsed"
    /\ OneMarkedLine
    /\ MarkChars(input.lines[1].mark) = << "[", "1", ":", "0", "2", ":", "0", "0", "]" >>
    /\ resultSegments[1].start = 3720

\* The positions of the marked lines of an input, in order.
MarkedPositions(in) ==
    LET marked == { i \in DOMAIN in.lines : in.lines[i].mark.form # 0 }
        RECURSIVE Sorted(_)
        Sorted(S) == IF S = {} THEN << >> ELSE << SetMin(S) >> \o Sorted(S \ { SetMin(S) })
    IN  Sorted(marked)

\* What the text holds between the marker of marked line k and the next
\* marker (or the end of the text): the body of that line and the unmarked
\* lines after it, trimmed.
SliceAfterMarker(in, k) ==
    LET pos == MarkedPositions(in)
        last == IF k < Len(pos) THEN pos[k + 1] - 1 ELSE Len(in.lines)
        here == [ i \in 1..(last - pos[k] + 1) |->
                    IF i = 1 THEN Entry(NoMark, in.lines[pos[k]].body)
                    ELSE in.lines[pos[k] + i - 1] ]
    IN  Trim(JoinEntries(here, in.sep))

\* The segment claimed for marked line k.
ClaimedSegment(in, k) ==
    LET pos == MarkedPositions(in)
        startTime == MarkOffset(in.lines[pos[k]].mark)
    IN  [ start |-> startTime,
          end   |-> IF k < Len(pos) THEN MarkOffset(in.lines[pos[k + 1]].mark)
                    ELSE startTime + 30,
          text  |-> SliceAfterMarker(in, k) ]

\* The segments claimed for an input with markers: one per marker whose
\* slice is not empty and does not repeat the normalized text of an earlier
\* slice, in document order.
ClaimedSegments(in) ==
    LET n == Len(MarkedPositions(in))
        kept(k) ==
            /\ SliceAfterMarker(in, k) # << >>
            /\ \A j \in 1..(k - 1) :
                   LowerStripped(SliceAfterMarker(in, j)) # LowerStripped(SliceAfterMarker(in, k))
        picked == SelectSeq([ k \in 1..n |-> k ], kept)
    IN  [ i \in DOMAIN picked |-> ClaimedSegment(in, picked[i]) ]

\* C7: when the text contains markers, the segments kept for the markers are
\* those claimed: start at the marker's offset, end at the next marker's
\* offset in document order (also when the next marker's own segment is
\* dropped) or 30 seconds after the start, text the trimmed slice up to the
\* next marker; segments with empty text are discarded.  They are the list
\* returned whenever one is kept.
C7_MarkerSegments ==
    (pc = "parsed" /\ MarkedLines(input) # << >>) =>
        /\ markerSegments = ClaimedSegments(input)
        /\ markerSegments # << >> => resultSegments = markerSegments

\* C7 witness: three markers, the second one's segment dropped, and the
\* first segment ends at the second marker's offset.
C7_Witness ==
    /\ pc = "parsed"
    /\ Len(MarkedLines(input)) = 3
    /\ Len(resultSegments) = 2
    /\ resultSegments[1].end = MarkOffset(MarkedLines(input)[2].mark)
    /\ resultSegments[2].start = MarkOffset(MarkedLines(input)[3].mark)
    /\ resultSegments[1].end # resultSegments[2].start

\* the content of a line as the filter sees it, and its normalized form
Content(e) == Trim(e.body)
NormalizedContent(e) == LowerStripped(Content(e))

\* the input is a marked line, the same line again, and another marked line
\* with some content
TwiceThenOther ==
    /\ input.sep = 1
    /\ Len(input.lines) = 3
    /\ input.lines[1].mark.form # 0
    /\ input.lines[2] = input.lines[1]
    /\ Len(Content(input.lines[1])) > 10
    /\ input.lines[3].mark.form # 0
    /\ Content(input.lines[3]) # << >>
    /\ input.lines[3] # input.lines[1]

\* the first and the third line are kept, and there is one segment per kept
\* line: the first ends at the third line's marker, the last after 30 seconds
FirstAndOtherKept ==
    LET e1 == input.lines[1]
        e3 == input.lines[3]
    IN  /\ cleanedResponse = EntryLine(e1) \o << "\n" >> \o EntryLine(e3)
        /\ resultSegments =
             << [ start |-> MarkOffset(e1.mark), end |-> MarkOffset(e3.mark),
                  text |-> Content(e1) ],
                [ start |-> MarkOffset(e3.mark), end |-> MarkOffset(e3.mark) + 30,
                  text |-> Content(e3) ] >>

\* C8 as stated: a marked line followed by an identical line (content longer
\* than 10 characters) and then by a different marked line is cleaned to the
\* first line and the different line, with exactly one segment per kept line.
C8_TwiceThenAnyOther ==
    (pc = "transcribed" /\ TwiceThenOther) => FirstAndOtherKept

\* C8 amended: the same, when the different line's content is also longer
\* than 10 characters and its normalized content scores at most 0.8 against
\* the first line's.
C8_TwiceThenDistinctOther ==
    ( /\ pc = "transcribed"
      /\ TwiceThenOther
      /\ Len(Content(input.lines[3])) > 10
      /\ NormalizedContent(input.lines[1]) # << >>
      /\ NormalizedContent(input.lines[3]) # << >>
      /\ LET q == Jaccard(NormalizedContent(input.lines[3]), NormalizedContent(input.lines[1]))
         IN  5 * q[1] <= 4 * q[2] )
    => FirstAndOtherKept

\* C8 witness: the three-line example, cleaned and segmented as
\* [{5, 40, "Hello world there"}, {40, 70, "Next part begins"}].
C8_Witness ==
    /\ pc = "transcribed"
    /\ input.sep = 1
    /\ input.lines = << Entry(Mark2(0, 5), bHello), Entry(Mark2(0, 5), bHello),
                        Entry(Mark2(0, 40), bNext) >>
    /\ resultSegments = << [ start |-> 5, end |-> 40, text |-> bHello ],
                           [ start |-> 40, end |-> 70, text |-> bNext ] >>

\* the input is two one-line paragraphs without markers, an empty line between
TwoPlainParagraphs ==
    /\ input.sep = 2
    /\ Len(input.lines) = 2
    /\ \A i \in 1..2 : input.lines[i].mark.form = 0 /\ Content(input.lines[i]) # << >>

\* the similarity of the normalized contents of the two paragraphs
ParagraphOverlap == Jaccard(NormalizedContent(input.lines[1]), NormalizedContent(input.lines[2]))

OnlyFirstParagraph ==
    resultSegments = << [ start |-> 0, end |-> 30, text |-> Content(input.lines[1]) ] >>

\* C9 as stated: two paragraphs without markers whose normalized word sets
\* have Jaccard similarity >= 0.8 are cleaned and segmented to exactly one
\* segment, the first paragraph.
C9_AtLeastFourFifths ==
    ( /\ pc = "transcribed"
      /\ TwoPlainParagraphs
      /\ 5 * ParagraphOverlap[1] >= 4 * ParagraphOverlap[2] )
    => OnlyFirstParagraph

\* C9 amended: the same when the similarity is strictly above 0.8 and the
\* first paragraph is longer than 10 characters.
C9_AboveFourFifths ==
    ( /\ pc = "transcribed"
      /\ TwoPlainParagraphs
      /\ Len(Content(input.lines[1])) > 10
      /\ 5 * ParagraphOverlap[1] > 4 * ParagraphOverlap[2] )
    => OnlyFirstParagraph

\* C9 witness: two different paragraphs sharing five of six words; only the
\* first one is a segment.
C9_Witness ==
    /\ pc = "transcribed"
    /\ TwoPlainParagraphs
    /\ input.lines[1] # input.lines[2]
    /\ 5 * ParagraphOverlap[1] > 4 * ParagraphOverlap[2]
    /\ ParagraphOverlap[1] < ParagraphOverlap[2]
    /\ OnlyFirstParagraph

\* The input is two paragraphs without markers: two lines with an empty line
\* between them, or two lines with a line of white space between them.
TwoParagraphBodies ==
    IF /\ input.sep = 2
       /\ Len(input.lines) = 2
    THEN << input.lines[1], input.lines[2] >>
    ELSE IF /\ input.sep = 1
            /\ Len(input.lines) = 3
            /\ input.lines[2].mark.form = 0
            /\ Content(input.lines[2]) = << >>
    THEN << input.lines[1], input.lines[3] >>
    ELSE << >>

\* C10: a text without markers made of two paragraphs with different
\* normalized text is segmented into exactly two segments, in paragraph
\* order, over (0, 30) and (30, 60), with the trimmed paragraphs as texts.
C10_TwoParagraphs ==
    ( /\ pc = "parsed"
      /\ TwoParagraphBodies # << >>
      /\ \A i \in 1..2 : /\ TwoParagraphBodies[i].mark.form = 0
                         /\ Content(TwoParagraphBodies[i]) # << >>
      /\ NormalizedContent(TwoParagraphBodies[1]) # NormalizedContent(TwoParagraphBodies[2]) )
    => resultSegments =
         << [ start |-> 0, end |-> 30, text |-> Content(TwoParagraphBodies[1]) ],
            [ start |-> 30, end |-> 60, text |-> Content(TwoParagraphBodies[2]) ] >>

\* C10 witness: two paragraphs separated by a line of white space, parsed
\* into the segments over (0, 30) and (30, 60).
C10_Witness ==
    /\ pc = "parsed"
    /\ input.sep = 1
    /\ TwoParagraphBodies # << >>
    /\ Len(resultSegments) = 2
    /\ markerSegments = << >>
    /\ resultSegments[1].end = 30
    /\ resultSegments[2].start = 30
    /\ resultSegments[2].end = 60
    /\ resultSegments[2].text = Content(input.lines[3])

\* The blocks of a subtitle file: the runs of non-empty lines between empty
\* lines, each block a sequence of lines.
RECURSIVE GroupLines(_, _)
GroupLines(ls, block) ==
    IF ls = << >> THEN (IF block = << >> THEN << >> ELSE << block >>)
    ELSE IF Head(ls) = << >>
    THEN (IF block = << >> THEN << >> ELSE << block >>) \o GroupLines(Tail(ls), << >>)
    ELSE GroupLines(Tail(ls), Append(block, Head(ls)))

CueBlocks(content) == GroupLines(SplitLines(content), << >>)

\* The segments of a list a renderer is to show: those with a non-empty
\* trimmed text that no earlier such segment has up to case and punctuation,
\* in the order of the list.
FirstOccurrences(segments) ==
    LET shown(i) == Trim(segments[i].text) # << >>
        first(i) ==
            /\ shown(i)
            /\ \A j \in 1..(i - 1) :
                   shown(j) => LowerStripped(Trim(segments[j].text))
                               # LowerStripped(Trim(segments[i].text))
        picked == SelectSeq([ i \in DOMAIN segments |-> i ], first)
    IN  [ k \in DOMAIN picked |-> segments[picked[k]] ]

\* a segment list in which every entry has a text was handed to the SRT
\* renderer, and the renderer returned
SrtOfSegments ==
    /\ rendered.srt.outcome = "returned"
    /\ data.kind = "object"
    /\ data.hasSegments

\* C11: the SRT file of a segment list has exactly one cue per distinct
\* normalized segment text (its first occurrence, in the order of the list,
\* segments with empty text left out) and the index lines of the cues are
\* 1, 2, ..., n; two segments with identical normalized text give one cue,
\* numbered 1.
C11_OneCuePerDistinctText ==
    SrtOfSegments =>
        LET blocks == CueBlocks(rendered.srt.content)
            shown == FirstOccurrences(data.segments)
        IN  /\ Len(blocks) = Len(shown)
            /\ \A k \in DOMAIN blocks :
                   /\ Len(blocks[k]) >= 3
                   /\ blocks[k][1] = << DigitSeq[k + 1] >>
                   /\ WordsFrom(JoinWords(SubSeq(blocks[k], 3, Len(blocks[k]))), 1)
                        = WordsFrom(shown[k].text, 1)

\* C11 witness: a list of two segments whose texts differ in punctuation only
\* was rendered to a single cue numbered 1.
C11_Witness ==
    /\ SrtOfSegments
    /\ Len(data.segments) = 2
    /\ data.segments[1].text # data.segments[2].text
    /\ LowerStripped(data.segments[1].text) = LowerStripped(data.segments[2].text)
    /\ Len(CueBlocks(rendered.srt.content)) = 1
    /\ CueBlocks(rendered.srt.content)[1][1] = << "1" >>

\* wrapText has been called on a text
Wrapped == wrapOut # NotCalled

\* str occurs in out as a whole run between line breaks (or the ends of out)
StandsAlone(out, str) ==
    \E i \in 1..(Len(out) - Len(str) + 1) :
        /\ SubSeq(out, i, i + Len(str) - 1) = str
        /\ (i = 1 \/ out[i - 1] = "\n")
        /\ (i + Len(str) - 1 = Len(out) \/ out[i + Len(str)] = "\n")

\* C12: no line emitted by wrapText is longer than maxLength unless it is a
\* single word that is itself longer than maxLength; such a word is never
\* split and stands on its own line.  (A word is a field between spaces; a
\* word that holds a line break of the text shows as the lines it holds.)
C12_WrapInvariant ==
    Wrapped =>
        LET text == wrapIn[1]
            maxLength == wrapIn[2]
            outLines == SplitLines(wrapOut)
            words == SplitSpaces(text)
        IN  /\ \A k \in DOMAIN outLines :
                   Len(outLines[k]) > maxLength =>
                       /\ \A i \in DOMAIN outLines[k] : outLines[k][i] # " "
                       /\ \E w \in DOMAIN words :
                              /\ Len(words[w]) > maxLength
                              /\ \E l \in DOMAIN SplitLines(words[w]) :
                                     SplitLines(words[w])[l] = outLines[k]
            /\ \A w \in DOMAIN words :
                   Len(words[w]) > maxLength => StandsAlone(wrapOut, words[w])

\* C12 witness: a text of several words, one of them longer than maxLength,
\* was wrapped into several lines and the long word is one of them.
C12_Witness ==
    /\ Wrapped
    /\ wrapIn[2] = 9
    /\ Len(SplitSpaces(wrapIn[1])) >= 3
    /\ \E k \in DOMAIN SplitLines(wrapOut) : SplitLines(wrapOut)[k] = wLong
    /\ \E k \in DOMAIN SplitLines(wrapOut) :
          /\ Len(SplitLines(wrapOut)[k]) = 9
          /\ \E i \in 1..9 : SplitLines(wrapOut)[k][i] = " "

\* the text of the example: "aaaa bbbb cccc"
ExampleText ==
    << "a", "a", "a", "a", " ", "b", "b", "b", "b", " ", "c", "c", "c", "c" >>

\* C13: wrapText is greedy.  A word is put on the current line exactly when
\* currentLength + wordLength + 1 <= maxLength: a line of several words is
\* within maxLength, a line break stands before a word only when the line
\* before it and that word and a space exceed maxLength, and the words are
\* those of the text in order; wrap("aaaa bbbb cccc", 9) is "aaaa bbbb" and
\* "cccc".
C13_Greedy ==
    (Wrapped /\ \A i \in DOMAIN wrapIn[1] : wrapIn[1][i] # "\n") =>
        LET text == wrapIn[1]
            maxLength == wrapIn[2]
            outLines == SplitLines(wrapOut)
        IN  /\ \A k \in 1..(Len(outLines) - 1) :
                   Len(outLines[k]) + Len(SplitSpaces(outLines[k + 1])[1]) + 1 > maxLength
            /\ \A k \in DOMAIN outLines :
                   (\E i \in DOMAIN outLines[k] : outLines[k][i] = " ")
                       => Len(outLines[k]) <= maxLength
            /\ WordsFrom(wrapOut, 1) = WordsFrom(text, 1)
            /\ (text = ExampleText /\ maxLength = 9)
                   => outLines = << << "a", "a", "a", "a", " ", "b", "b", "b", "b" >>,
                                    << "c", "c", "c", "c" >> >>

\* C13 witness: the example was wrapped into its two lines.
C13_Witness ==
    /\ Wrapped
    /\ wrapIn = << ExampleText, 9 >>
    /\ Len(SplitLines(wrapOut)) = 2
    /\ Len(SplitLines(wrapOut)[1]) = 9

\* the filter has kept some lines, or has returned
Filtering == pc \in { "dedupe", "cleaned" }

\* C14 as stated: a line whose normalized content equals that of an earlier
\* kept line is dropped however many lines were kept in between, so no two
\* kept lines have equal normalized content.
C14_NoRepeatedKept ==
    Filtering =>
        \A i, j \in DOMAIN KeptLines :
            i < j => KeptNormalized(KeptLines[i]) # KeptNormalized(KeptLines[j])

\* C14 amended: the same for lines whose normalized content is longer than
\* 20 characters.
C14_NoRepeatedLongKept ==
    Filtering =>
        \A i, j \in DOMAIN KeptLines :
            (i < j /\ Len(KeptNormalized(KeptLines[j])) > 20)
                => KeptNormalized(KeptLines[i]) # KeptNormalized(KeptLines[j])

\* C14 witness: a line with more than 20 characters of normalized content
\* came again after more kept lines than the window holds, and was dropped.
C14_Witness ==
    /\ pc = "cleaned"
    /\ Len(input.lines) >= 8
    /\ input.sep = 1
    /\ input.lines[1].body = input.lines[Len(input.lines)].body
    /\ Len(LowerStripped(Trim(input.lines[1].body))) > 20
    /\ Len(KeptLines) = Len(input.lines) - 1

\* C15: an empty or missing raw text (empty string, null, undefined) yields
\* the empty string from deduplicateTranscript and an empty list from
\* parseTextIntoSegments.
C15_EmptyInEmptyOut ==
    IsFalsy(textResponse) =>
        /\ pc \in { "cleaned", "transcribed", "extracted" } => cleanedResponse = << >>
        /\ HasSegments => resultSegments = << >>
        /\ pc # "TypeError"

\* no renderer threw
NoRendererThrew ==
    \A format \in { "txt", "srt", "vtt" } :
        rendered[format].outcome \in { "not called", "returned" }

\* C16: no input makes a component raise an error: not a null transcription
\* result, not a segment list with an entry without text, not an empty or
\* malformed text.
C16_Total == NoRendererThrew

\* The filter's local state as a call on its own starts with.
FreshFilter == [ cleanedLines |-> << >>, seenContent |-> {}, recentSegments |-> << >> ]

\* what a job with this text produces when it is the only job
AloneCleaned(text) ==
    IF IsFalsy(text) THEN << >>
    ELSE JoinLines(DedupeLoop(FreshFilter, SplitLines(text), 1).cleanedLines)

\* C17: whatever the order in which the jobs of one server are handled, each
\* job's cleaned text and segment list are those the job produces alone.
C17_NoInterference ==
    \A j \in DOMAIN jobs :
        jobs[j].status = "done" =>
            /\ jobs[j].text = AloneCleaned(InputText(jobs[j].input))
            /\ jobs[j].segments
                 = ParseTextIntoSegments(AloneCleaned(InputText(jobs[j].input)))

\* C17 witness: two jobs with the same text of two lines were handled one
\* after the other, and both have the same cleaned text and two segments.
C17_Witness ==
    /\ running = 0
    /\ jobs[1].status = "done"
    /\ jobs[2].status = "done"
    /\ jobs[1].input = jobs[2].input
    /\ Len(jobs[1].input.lines) = 2
    /\ jobs[1].text # << >>
    /\ jobs[1].text = jobs[2].text
    /\ Len(jobs[2].segments) = 2

\* str is "HH:MM:SS" + mark + "mmm" for the whole number of seconds n: the
\* hours in two digits or more and not reduced modulo 24, minutes and seconds
\* in two digits and below 60, milliseconds 000.
IsClockOf(str, mark, n) ==
    LET len == Len(str)
        hh == SubSeq(str, 1, len - 10)
        mm == SubSeq(str, len - 8, len - 7)
        ss == SubSeq(str, len - 5, len - 4)
    IN  /\ len >= 12
        /\ str[len - 9] = ":"
        /\ str[len - 6] = ":"
        /\ str[len - 3] = mark
        /\ SubSeq(str, len - 2, len) = << "0", "0", "0" >>
        /\ \A i \in DOMAIN str : i \notin { len - 9, len - 6, len - 3 } => IsDigit(str[i])
        /\ Len(hh) > 2 => hh[1] # "0"
        /\ ParseInt(hh) = n \div 3600
        /\ ParseInt(mm) = (n % 3600) \div 60
        /\ ParseInt(ss) = n % 60
        /\ ParseInt(mm) < 60
        /\ ParseInt(ss) < 60
        /\ ParseInt(hh) * 3600 + ParseInt(mm) * 60 + ParseInt(ss) = n

\* C18: for a whole number of seconds s >= 0, formatSRTTime(s) is
\* "HH:MM:SS,mmm" with HH = floor(s / 3600) not reduced modulo 24 and in at
\* least two digits, MM and SS in two digits and below 60, mmm = 000, and
\* HH*3600 + MM*60 + SS = s; formatVTTTime(s) is the same with '.' for ','.
C18_ClockFormat ==
    /\ timeCode.srt # NotCalled => IsClockOf(timeCode.srt, ",", seconds)
    /\ timeCode.vtt # NotCalled => IsClockOf(timeCode.vtt, ".", seconds)
    /\ (timeCode.srt # NotCalled /\ timeCode.vtt # NotCalled) =>
           /\ Len(timeCode.vtt) = Len(timeCode.srt)
           /\ \A i \in DOMAIN timeCode.srt :
                  timeCode.vtt[i] = IF timeCode.srt[i] = "," THEN "." ELSE timeCode.srt[i]

\* C18 witness: a time of 100 hours, 59 minutes and 59 seconds was formatted
\* both ways, with three digits of hours.
C18_Witness ==
    /\ seconds = 100 * 3600 + 59 * 60 + 59
    /\ timeCode.srt = << "1", "0", "0", ":", "5", "9", ":", "5", "9", ",", "0", "0", "0" >>
    /\ timeCode.vtt = << "1", "0", "0", ":", "5", "9", ":", "5", "9", ".", "0", "0", "0" >>

\* C19: every cue of the SRT file has the timing line
\* formatSRTTime(segment.start) --> formatSRTTime(segment.end), for any
\* start >= 0 and end >= 0: the printed times are the segment's own.
C19_CueTimesAreSegmentTimes ==
    SrtOfSegments =>
        LET blocks == CueBlocks(rendered.srt.content)
            shown == FirstOccurrences(data.segments)
        IN  \A k \in DOMAIN blocks :
                k <= Len(shown) =>
                    blocks[k][2] = FormatSRTTime(shown[k].start) \o Arrow
                                   \o FormatSRTTime(shown[k].end)

\* the line with every ',' replaced by '.'
WithDots(line) == [ i \in DOMAIN line |-> IF line[i] = "," THEN "." ELSE line[i] ]

\* the cue blocks of an SRT file as a VTT file shows them: the index line
\* removed, the times with '.', an empty line after each
RECURSIVE AsVttCues(_)
AsVttCues(blocks) ==
    IF blocks = << >> THEN << >>
    ELSE LET block == Head(blocks)
         IN  WithDots(block[2]) \o << "\n" >>
             \o JoinLines(SubSeq(block, 3, Len(block))) \o << "\n", "\n" >>
             \o AsVttCues(Tail(blocks))

\* C20: the VTT file of a segment list is "WEBVTT", an empty line, and the
\* cue blocks of the SRT file of the same list without their index lines and
\* with '.' for ',' in the times: same cues, same order, same times, same
\* wrapped text.
C20_VttIsSrtWithoutIndex ==
    (SrtOfSegments /\ rendered.vtt.outcome = "returned") =>
        rendered.vtt.content
          = WebVttHeader \o AsVttCues(CueBlocks(rendered.srt.content))

\* C21 (as claimed): when the text contains at least one marker, the list
\* parseTextIntoSegments returns holds only segments derived from markers
\* (start at the marker's offset, text the slice up to the next marker), and
\* it is empty when every marker is followed by empty text: the paragraphs
\* are used only for a text without markers.
C21_MarkersExcludeParagraphs ==
    (pc = "parsed" /\ MarkedLines(input) # << >>) =>
        resultSegments = ClaimedSegments(input)

\* C22 (as claimed): for a text without markers, the returned segments fill
\* consecutive 30-second slots in paragraph order: the k-th returned segment,
\* counted from 0, runs from 30*k to 30*(k+1), without gaps, also after
\* empty and repeated paragraphs were left out.
C22_ConsecutiveSlots ==
    (pc = "parsed" /\ MarkedLines(input) = << >>) =>
        \A k \in DOMAIN resultSegments :
            /\ resultSegments[k].start = 30 * (k - 1)
            /\ resultSegments[k].end = 30 * k

\* the normalized contents of the lines kept in a list of cleaned lines
KeptMemory(cleaned) ==
    { KeptNormalized(l) : l \in { x \in Range(cleaned) : x # << >> } }

\* C23: in deduplicateTranscript a line that is not blank is either dropped
\* or kept.  A dropped line (a duplicate, or content of at most 10
\* characters) leaves seenContent, recentSegments and the output as they
\* were; a kept line is appended to the output as the full original line,
\* timestamp prefix included.  So the memory a later line is compared with
\* holds normalized contents of kept lines only.
C23_DroppedLeavesNoTrace ==
    [][ DedupeStep =>
          LET line == lines[lineIndex]
              content == LineContent(Trim(line))
              normalizedContent == LowerStripped(content)
              st == [ cleanedLines |-> cleanedLines, seenContent |-> seenContent,
                      recentSegments |-> recentSegments ]
              dropped == /\ cleanedLines' = cleanedLines
                         /\ seenContent' = seenContent
                         /\ recentSegments' = recentSegments
              kept == /\ cleanedLines' = Append(cleanedLines, line)
                      /\ seenContent' = seenContent \cup { normalizedContent }
                      /\ recentSegments'[Len(recentSegments')] = normalizedContent
          IN  Trim(line) # << >> =>
                /\ dropped \/ kept
                /\ (Len(content) <= 10 \/ IsDuplicate(st, normalizedContent)) => dropped
                /\ seenContent' = KeptMemory(cleanedLines')
                /\ Range(recentSegments') \subseteq KeptMemory(cleanedLines')
      ]_vars

\* C23 witness: a line was dropped and a later line, which starts with a
\* timestamp, was kept as written; the memory holds the kept lines only.
C23_Witness ==
    /\ pc = "dedupe"
    /\ \E i, j \in 1..(lineIndex - 1) :
          /\ i < j
          /\ Trim(lines[i]) # << >>
          /\ lines[i] \notin Range(cleanedLines)
          /\ lines[j] \in Range(cleanedLines)
          /\ LeadingTimestamp(Trim(lines[j])) # << >>
          /\ KeptNormalized(lines[i]) \notin seenContent

\* the normalized contents of the kept lines, in the order they were kept
KeptSequence == [ i \in DOMAIN KeptLines |-> KeptNormalized(KeptLines[i]) ]

\* the last n entries of a sequence, all of them when it has fewer
LastEntries(sq, n) == SubSeq(sq, SetMax({ 1, Len(sq) - n + 1 }), Len(sq))

\* C24: after every line deduplicateTranscript has handled, recentSegments
\* holds at most 5 entries, namely the normalized contents of the most
\* recently kept lines (the last 5, or all when fewer were kept) in the order
\* they were kept, the oldest evicted first, and seenContent holds the
\* normalized content of every line kept so far.
C24_WindowIsLastFiveKept ==
    Filtering =>
        /\ Len(recentSegments) <= 5
        /\ recentSegments = LastEntries(KeptSequence, 5)
        /\ seenContent = Range(KeptSequence)

\* C24 witness: seven lines were kept, so two entries were evicted: the
\* window starts at the third kept line while seenContent still holds the
\* first.
C24_Witness ==
    /\ pc = "dedupe"
    /\ Len(KeptLines) = 7
    /\ Len(recentSegments) = 5
    /\ recentSegments[1] = KeptSequence[3]
    /\ KeptSequence[1] \in seenContent
    /\ KeptSequence[1] \notin Range(recentSegments)

\* the offsets of the markers of an input, in document order
MarkerOffsets(in) == [ k \in DOMAIN MarkedLines(in) |-> MarkOffset(MarkedLines(in)[k].mark) ]

\* the marker offsets grow strictly along the text
StrictlyIncreasing(offsets) ==
    \A k \in 1..(Len(offsets) - 1) : offsets[k] < offsets[k + 1]

\* C25: when the marker offsets of the text are strictly increasing in
\* document order, every returned segment ends after it starts and no
\* returned segment ends after the next returned one starts, also when the
\* segments of markers in between were dropped as empty or repeated.  (The
\* markers of a cleaned text are markers of the raw text in the same order.)
C25_NoOverlap ==
    (HasSegments /\ StrictlyIncreasing(MarkerOffsets(input))) =>
        /\ \A k \in DOMAIN resultSegments :
               resultSegments[k].end > resultSegments[k].start
        /\ \A k \in 1..(Len(resultSegments) - 1) :
               resultSegments[k].end <= resultSegments[k + 1].start

\* C25 witness: three markers with growing offsets, the second one's segment
\* dropped as a repetition of the first, so that the first returned segment
\* ends before the second returned segment starts.
C25_Witness ==
    /\ pc = "parsed"
    /\ Len(MarkerOffsets(input)) = 3
    /\ StrictlyIncreasing(MarkerOffsets(input))
    /\ LowerStripped(input.lines[1].body) = LowerStripped(input.lines[2].body)
    /\ Len(resultSegments) = 2
    /\ resultSegments[1].start = MarkerOffsets(input)[1]
    /\ resultSegments[1].end = MarkerOffsets(input)[2]
    /\ resultSegments[2].start = MarkerOffsets(input)[3]
    /\ resultSegments[1].end < resultSegments[2].start

\* The words of a string in order: its maximal runs of characters that are
\* neither a space nor a line break.
RECURSIVE WordsOf(_, _)
WordsOf(str, i) ==
    IF i > Len(str) THEN << >>
    ELSE IF str[i] \in { " ", "\n" } THEN WordsOf(str, i + 1)
    ELSE LET stops == { j \in i..Len(str) : str[j] \in { " ", "\n" } }
             j == IF stops = {} THEN Len(str) + 1 ELSE SetMin(stops)
         IN  << SubSeq(str, i, j - 1) >> \o WordsOf(str, j)

CurrentIsRegistered(registry, current) == current = NoPage \/ PagesHas(registry, current)

\* C27: in every state the Puppeteer server reaches, whatever calls of
\* launch_browser, new_page, close_page and close_browser it has received
\* and however they interleave at their awaits, currentPageId is null or a
\* key of the pages map; a close_page that closes the current page leaves
\* currentPageId on a page that remains or on null; a new_page for a pageId
\* that is registered is answered with an error and changes neither the
\* registry nor currentPageId.
C27_RegistryInvariant ==
    /\ [] CurrentIsRegistered(pages, currentPageId)
    /\ [][ /\ \A i \in 1..MaxCalls :
                 (ClosePageClosed(i) /\ currentPageId = calls[i].pageId) =>
                     /\ currentPageId' # calls[i].pageId
                     /\ CurrentIsRegistered(pages', currentPageId')
           /\ \A pageId \in PageIds :
                 (NewPage(pageId) /\ PagesHas(pages, pageId)) =>
                     /\ lastReply' = Answer("new_page", pageId, "error")
                     /\ pages' = pages
                     /\ currentPageId' = currentPageId
         ]_vars

\* C27 witness: after launch_browser and new_page 'a', close_page 'a' has
\* closed the current page and the current page is 'default', which remains.
C27_Witness ==
    /\ received = 3
    /\ calls = << >>
    /\ lastReply = Answer("close_page", "a", "returned")
    /\ pages = << [ id |-> "default", page |-> 1 ] >>
    /\ currentPageId = "default"
    /\ browser = 1

\* C28 (as claimed): when a launch_browser call has been answered, every
\* page of the registry belongs to the browser that call launched: the
\* registry holds 'default' only, and a page id registered under an earlier
\* browser, which launch_browser closed, is not resolved by getPage.
C28_RegistryOfNewBrowser ==
    (lastReply = Answer("launch_browser", NoPage, "returned") /\ calls = << >>) =>
        /\ PagesKeys(pages) = { "default" }
        /\ \A i \in DOMAIN pages : pages[i].page = browser
        /\ \A pageId \in PageIds : GetPage(pageId) \in { NoBrowser, browser }

\* C29 (as claimed): however launch_browser and close_browser calls
\* interleave, every browser the server has launched, other than the one
\* held in this.browser, has been closed.
C29_NoOrphanBrowser ==
    \A b \in 1..launched : b \in openBrowsers => b = browser

\* C30 (as claimed): the dispatcher of the transcription server answers a
\* call that names an unknown tool with an McpError of code MethodNotFound,
\* and a failure inside a known tool with an McpError of code InternalError.
C30_ErrorCodes ==
    \A k \in DOMAIN answers :
        /\ answers[k].name \notin ToolNames => answers[k].answer = McpError("MethodNotFound")
        /\ (answers[k].name \in ToolNames /\ answers[k].tried.thrown)
               => answers[k].answer = McpError("InternalError")
====
